---- MODULE Spec2Model ----
(***************************************************************************)
(* Model of the wheel-n-deal price-monitoring engine:                      *)
(*   - tasks/price_check.py   check_price: the self-rescheduling cycle     *)
(*   - routers/tracker.py     track_product, delete_product, check_prices  *)
(*   - celery_app.py          the broker and the acknowledgment of messages*)
(*   - services/scraper.py    scrape_product_info and the site adapters    *)
(*   - utils/pricing.py       parse_price, format_price                    *)
(*   - services/user_service.py  get_or_create_signal_user                 *)
(*   - services/listener.py   handle_track_command, stop_tracking_item     *)
(* Prices are integers in cents.  Python's None is the value None below.   *)
(***************************************************************************)
EXTENDS Bags, FiniteSets, Integers, Sequences, TLC

VARIABLES
    products,       \* rows of table "products": set of [id, url,
                    \* target_price, user_id]
    price_history,  \* rows of table "price_history", in insertion order
    next_id,        \* next primary key of "products"
    queue,          \* the broker: bag of pending check_price messages
    running,        \* per worker: the check_price invocation it executes
    signal,         \* the message the step just taken delivered to Signal
    countdown,      \* the countdown of the last apply_async call a request
                    \* handler made (None: no such call yet); that of a
                    \* cycle's own call is running[w].next_countdown
    manual,         \* the POST /check-prices request being served
    website_type,   \* scrape_product_info: the kind of site of the url
    soup,           \* scrape_product_info: the parsed page
    product_info,   \* scrape_product_info: what the adapter returned
    scrape_pc,      \* scrape_product_info: its position
    scrape_url,     \* scrape_product_info: the url it was called with
    scrape_exc,     \* scrape_product_info: the except clause that ran
    driver,         \* scrape_product_info: browser sessions started and quit
    call,           \* the last call of a function of utils/pricing.py or of
                    \* get_website_type: its argument and what it returned
    users,          \* rows of table "users": set of [id, signal_phone,
                    \* signal_username]
    next_user_id,   \* next primary key of "users"
    user            \* what the last call of get_or_create_signal_user
                    \* returned

\* the tables, the broker and the workers
engine == <<products, price_history, next_id, queue, running, signal,
            countdown, manual>>

\* one call of scrape_product_info
scraper == <<website_type, soup, product_info, scrape_pc, scrape_url,
             scrape_exc, driver>>

\* the users of the Signal bot
accounts == <<users, next_user_id, user>>

vars == <<products, price_history, next_id, queue, running, signal,
          countdown, manual, website_type, soup, product_info, scrape_pc, scrape_url,
          scrape_exc, driver, call, users, next_user_id, user>>

----------------------------------------------------------------------------
(* Bounds of the model *)

MaxProducts == 2
MaxHistory == 2
MaxElements == 3
MaxLen == 4
MaxCents == 1200
MaxManual == 1

URLS == {"https://example.com/product"}
Workers == {"w1"}
\* prices a page can show when it is re-checked, and when it is first tracked
Prices == {8500, 10000}
TrackPrices == {10000}
\* target_price of a POST /track body (0 - 1: not given)
TargetInputs == {0 - 1, 8500}
RandomOffsets == {0 - 600, 600}

----------------------------------------------------------------------------
(* Values *)

None == 0 - 1

\* scrape_product_info raised instead of returning (e.g. Chrome did not start)
Raises == 0 - 2

\* tasks/price_check.py:64  next_countdown = 3600 + random_offset
BaseInterval == 3600

\* routers/tracker.py:70  round(current_price * 0.9, 2), on cents.  Exact for
\* every price whose cents do not end in 5 (the model's Prices); on a tie the
\* binary float decides.
Round90(p) == (9 * p + 5) \div 10

\* Python truthiness of an Optional[float]
Truthy(x) == x # None /\ x # 0

\* A step that sends nothing to Signal
Quiet == signal' = "none"

\* A step in which no request handler puts a message on the broker
Unrequested == UNCHANGED countdown

\* apply_async without countdown or eta: the message is due at once
Now == 0

ProductByUrl(u) == {p \in products : p.url = u}
ProductById(i) == {p \in products : p.id = i}

\* The prices recorded for a product, oldest first
ObservationsOf(id) == SelectSeq(price_history, LAMBDA h : h.product_id = id)
PricesOf(id) == [i \in 1..Len(ObservationsOf(id)) |-> ObservationsOf(id)[i].price]

\* A check_price message on the broker: args=[url, target_price].  stale is
\* a ghost field: the product whose POST /track started the chain of this
\* message has been deleted.
Task(u, tp, stale) ==
    [url |-> u, target_price |-> tp, stale |-> stale]

Idle ==
    [pc |-> "idle", url |-> "", target_price |-> None, stale |-> FALSE,
     orphan |-> FALSE, current_price |-> None, product |-> None,
     exc |-> FALSE, opens |-> 0, adds |-> 0, commits |-> 0,
     appended |-> 0, notifies |-> 0, rollbacks |-> 0, closes |-> 0,
     scheduled |-> 0, next_countdown |-> None, escaped |-> FALSE,
     raised |-> "none"]

\* A fresh invocation check_price(url, target_price).  orphan is a ghost
\* field: the invocation began after the product of its chain was deleted.
NewCycle(t) ==
    [Idle EXCEPT !.pc = "scrape", !.url = t.url,
                 !.target_price = t.target_price, !.stale = t.stale,
                 !.orphan = t.stale]

\* The worker has no invocation in progress
Free(w) == running[w].pc \in {"idle", "done"}

Cycles == {w \in Workers : running[w].pc # "idle"}

\* Room left in the ledger for one more observation (model bound)
Room ==
    Len(price_history)
      + Cardinality({w \in Workers : running[w].pc \in {"lookup", "append"}})
      < MaxHistory

----------------------------------------------------------------------------
(* check_price: exception plumbing *)

\* an exception is raised by a statement of the try block, and is in flight
Raise(c, statement) == [c EXCEPT !.exc = TRUE, !.raised = statement]

\* Mutant: the handler swallows the exception and leaves the session as it is
InnerExceptNoRollback(c, rollback_raises) ==
    [c EXCEPT !.exc = FALSE]

\* price_check.py:53-55  except Exception: db.rollback(); print
InnerExcept(c, rollback_raises) ==
    IF c.exc
    THEN [c EXCEPT !.rollbacks = @ + 1, !.exc = rollback_raises]
    ELSE c

\* Mutant: the session is left open
FinallyNoClose(c, close_raises) == c

\* price_check.py:56-57  finally: db.close()
Finally(c, close_raises) ==
    [c EXCEPT !.closes = @ + 1, !.exc = c.exc \/ close_raises]

\* Mutant: the outer handler re-raises, and the exception leaves the task
OuterExceptReraise(c) ==
    [c EXCEPT !.pc = "done", !.escaped = TRUE]

\* price_check.py:58-60  except Exception: print; control reaches line 62
OuterExcept(c) ==
    [c EXCEPT !.exc = FALSE, !.pc = "reschedule"]

\* price_check.py:19, 58  leaving the outer try statement
LeaveTry(c) ==
    IF c.exc THEN OuterExcept(c) ELSE [c EXCEPT !.pc = "reschedule"]

\* price_check.py:28, 53-57  leaving the inner try statement, then the outer
LeaveDb(c, rollback_raises, close_raises) ==
    LeaveTry(Finally(InnerExcept(c, rollback_raises), close_raises))

----------------------------------------------------------------------------
(* check_price, step by step.  A step ends where the invocation next reads  *)
(* or writes something shared: the page, the database, Signal, the broker.  *)

\* What scrape_product_info(url)["price"] can be: an exception, the sentinel
\* "Price not found" (None), or "$d.dd" (cents).  A price is drawn only while
\* the ledger has room (model bound).
ScrapeOutcomes == {Raises, None} \cup (IF Room THEN Prices ELSE {})

\* Mutant: the session is opened before the page is scraped
ScrapeStepSessionFirst(c, out, session_raises) ==
    LET d == [c EXCEPT !.opens = @ + 1] IN
    IF session_raises THEN LeaveTry(Raise(c, "session"))
    ELSE IF out \in {Raises, None} THEN LeaveTry(Raise(d, "scrape"))
    ELSE [d EXCEPT !.current_price = out, !.pc = "lookup"]

\* price_check.py:21-27  scrape, float(...), get_db_session()
ScrapeStep(c, out, session_raises) ==
    IF out = Raises THEN LeaveTry(Raise(c, "scrape"))
    ELSE IF out = None THEN LeaveTry(Raise(c, "scrape"))
    ELSE IF session_raises
         THEN LeaveTry(Raise([c EXCEPT !.current_price = out], "session"))
         ELSE [c EXCEPT !.current_price = out, !.opens = @ + 1, !.pc = "lookup"]

\* Mutant: the "if product" test is missing
LookupStepNoCheck(c, found, query_raises, rollback_raises, close_raises) ==
    IF query_raises
    THEN LeaveDb(Raise(c, "lookup"), rollback_raises, close_raises)
    ELSE [c EXCEPT !.product = IF found = {} THEN None
                                ELSE (CHOOSE p \in found : TRUE).id,
                   !.pc = "append"]

\* price_check.py:30-32, 51-52  db.query(Product).filter(url == url).first()
LookupStep(c, found, query_raises, rollback_raises, close_raises) ==
    IF query_raises
    THEN LeaveDb(Raise(c, "lookup"), rollback_raises, close_raises)
    ELSE IF found = {}
         THEN LeaveDb(c, rollback_raises, close_raises)
         ELSE [c EXCEPT !.product = (CHOOSE p \in found : TRUE).id,
                        !.pc = "append"]

\* price_check.py:34-36  PriceHistory(...); db.add; db.commit
AppendStep(c, commit_raises, rollback_raises, close_raises) ==
    LET d == [c EXCEPT !.adds = @ + 1, !.commits = @ + 1] IN
    IF commit_raises
    THEN LeaveDb(Raise(d, "append"), rollback_raises, close_raises)
    ELSE [d EXCEPT !.appended = @ + 1, !.pc = "evaluate"]

\* Mutant: a strict comparison
ShouldNotifyStrict(current_price, target_price) == current_price < target_price

\* price_check.py:39  current_price <= target_price
ShouldNotify(current_price, target_price) == current_price <= target_price

\* Mutant: a notifier that raised is called a second time
EvaluateStepRetry(c, send_raises, rollback_raises, close_raises) ==
    IF c.target_price = None
    THEN LeaveDb(Raise(c, "compare"), rollback_raises, close_raises)
    ELSE IF ShouldNotify(c.current_price, c.target_price)
         THEN LET d == [c EXCEPT !.notifies = @ + (IF send_raises THEN 2 ELSE 1)] IN
              LeaveDb(IF send_raises THEN Raise(d, "send") ELSE d,
                      rollback_raises, close_raises)
         ELSE LeaveDb(c, rollback_raises, close_raises)

\* price_check.py:39-50  compare, send_signal_message, then the finally
EvaluateStep(c, send_raises, rollback_raises, close_raises) ==
    IF c.target_price = None  \* float <= None: TypeError
    THEN LeaveDb(Raise(c, "compare"), rollback_raises, close_raises)
    ELSE IF ShouldNotify(c.current_price, c.target_price)
         THEN LET d == [c EXCEPT !.notifies = @ + 1] IN
              LeaveDb(IF send_raises THEN Raise(d, "send") ELSE d,
                      rollback_raises, close_raises)
         ELSE LeaveDb(c, rollback_raises, close_raises)

\* price_check.py:63-64
NextCountdown(random_offset) == BaseInterval + random_offset

\* Mutant: a cycle that found no product to record for ends its chain
ContinuationIfFound(c) ==
    IF c.product = None THEN EmptyBag
    ELSE SetToBag({Task(c.url, c.target_price, c.stale)})

\* Mutant: apply_async is reached only if the database block did not fail
ContinuationIfClean(c) ==
    IF c.rollbacks > 0 THEN EmptyBag
    ELSE SetToBag({Task(c.url, c.target_price, c.stale)})

\* Mutant: the continuation forgets the threshold
ContinuationNoTarget(c) ==
    SetToBag({Task(c.url, None, c.stale)})

\* price_check.py:67  the messages check_price.apply_async puts on the broker
Continuation(c) ==
    SetToBag({Task(c.url, c.target_price, c.stale)})

Scrape(w) ==
    /\ running[w].pc = "scrape"
    /\ \E out \in ScrapeOutcomes : \E session_raises \in BOOLEAN :
         running' = [running EXCEPT ![w] = ScrapeStep(@, out, session_raises)]
    /\ Quiet
    /\ Unrequested
    /\ UNCHANGED <<products, price_history, next_id, queue>>
    /\ UNCHANGED <<scraper, call, accounts, manual>>

Lookup(w) ==
    /\ running[w].pc = "lookup"
    /\ \E query_raises, rollback_raises, close_raises \in BOOLEAN :
         running' = [running EXCEPT ![w] =
             LookupStep(@, ProductByUrl(@.url), query_raises,
                        rollback_raises, close_raises)]
    /\ Quiet
    /\ Unrequested
    /\ UNCHANGED <<products, price_history, next_id, queue>>
    /\ UNCHANGED <<scraper, call, accounts, manual>>

AppendObservation(w) ==
    /\ running[w].pc = "append"
    /\ \E commit_raises, rollback_raises, close_raises \in BOOLEAN :
         /\ running' = [running EXCEPT ![w] =
                AppendStep(@, commit_raises, rollback_raises, close_raises)]
         /\ price_history' =
                IF commit_raises THEN price_history
                ELSE Append(price_history,
                            [product_id |-> running[w].product,
                             price |-> running[w].current_price])
    /\ Quiet
    /\ Unrequested
    /\ UNCHANGED <<products, next_id, queue>>
    /\ UNCHANGED <<scraper, call, accounts, manual>>

Evaluate(w) ==
    /\ running[w].pc = "evaluate"
    /\ \E send_raises, rollback_raises, close_raises \in BOOLEAN :
         /\ running' = [running EXCEPT ![w] =
                EvaluateStep(@, send_raises, rollback_raises, close_raises)]
         /\ signal' = IF running'[w].notifies > running[w].notifies /\ ~send_raises
                      THEN "alert" ELSE "none"
    /\ Unrequested
    /\ UNCHANGED <<products, price_history, next_id, queue>>
    /\ UNCHANGED <<scraper, call, accounts, manual>>

Reschedule(w) ==
    /\ running[w].pc = "reschedule"
    /\ \E random_offset \in RandomOffsets :
         /\ queue' = queue (+) Continuation(running[w])
         /\ running' = [running EXCEPT ![w] =
                [@ EXCEPT !.scheduled = @ + 1, !.pc = "done",
                          !.next_countdown = NextCountdown(random_offset)]]
    /\ Unrequested
    /\ Quiet
    /\ UNCHANGED <<products, price_history, next_id>>
    /\ UNCHANGED <<scraper, call, accounts, manual>>

----------------------------------------------------------------------------
(* The broker hands a pending message to a free worker *)

Deliver(w, t) ==
    /\ Free(w)
    /\ BagIn(t, queue)
    /\ queue' = queue (-) SetToBag({t})
    /\ running' = [running EXCEPT ![w] = NewCycle(t)]
    /\ Quiet
    /\ Unrequested
    /\ UNCHANGED <<products, price_history, next_id>>
    /\ UNCHANGED <<scraper, call, accounts, manual>>

----------------------------------------------------------------------------
(* A worker process dies while it executes an invocation *)

\* celery_app.py:4-6, price_check.py:9  neither the app (task_acks_late) nor
\* the task (acks_late) asks for late acknowledgment, so the message was
\* acknowledged when the worker took it (Deliver): the broker holds nothing
\* to deliver again, and the invocation is gone with the process.
Crash(w) ==
    /\ ~Free(w)
    /\ running' = [running EXCEPT ![w] = Idle]
    /\ Quiet
    /\ Unrequested
    /\ UNCHANGED <<products, price_history, next_id, queue>>
    /\ UNCHANGED <<scraper, call, accounts, manual>>

----------------------------------------------------------------------------
(* routers/tracker.py *)

\* Mutant: no threshold is derived from the scraped price
InitialTargetAsGiven(target_price, current_price) == target_price

\* tracker.py:68-71  the threshold stored with a new product
InitialTarget(target_price, current_price) ==
    IF ~Truthy(target_price) /\ Truthy(current_price)
    THEN Round90(current_price)
    ELSE target_price

\* The statement of track_product's try block that raises ("none": none does)
TrackFailPoints == {"none", "commit_product", "commit_history", "apply_async", "notify"}

\* tracker.py:56, 110, 125  the status of the response of POST /track
TrackStatus(existing, out, fp) ==
    IF existing # {} THEN 400
    ELSE IF out = Raises \/ fp # "none" THEN 500
    ELSE 200

\* Mutant: track_product leaves the first cycle to somebody else
NoFirstCycle(u, tp) == EmptyBag

\* tracker.py:99-101  the first check_price message of a new product
FirstCycle(u, tp) == SetToBag({Task(u, tp, FALSE)})

\* tracker.py:43-125  POST /track.  out is what scrape_product_info returned
\* (Raises, or price_float: None or cents); fp is the statement that raises.
TrackProduct(u, target_price, out, fp) ==
    LET existing == ProductByUrl(u)
        tp == InitialTarget(target_price, out)
        row == [id |-> next_id, url |-> u, target_price |-> tp,
                user_id |-> None]
        status == TrackStatus(existing, out, fp)
        stored == status # 400 /\ out # Raises /\ fp # "commit_product"
        observed == stored /\ fp # "commit_history"
        enqueued == observed /\ fp # "apply_async"
        notified == enqueued /\ fp # "notify"
    IN /\ existing = {} => next_id <= MaxProducts /\ Room
       /\ products' = IF stored THEN products \cup {row} ELSE products
       /\ next_id' = IF stored THEN next_id + 1 ELSE next_id
       /\ price_history' =
            IF observed
            THEN Append(price_history, [product_id |-> next_id, price |-> out])
            ELSE price_history
       /\ queue' = IF enqueued THEN queue (+) FirstCycle(u, tp) ELSE queue
       /\ countdown' = IF enqueued THEN Now ELSE countdown
       /\ signal' = IF notified THEN "tracking" ELSE "none"
       /\ UNCHANGED running
       /\ UNCHANGED <<scraper, call, accounts, manual>>

\* tracker.py:231, 240, 247  the status of the response of DELETE
DeleteStatus(found, commit_raises) ==
    IF found = {} THEN 404 ELSE IF commit_raises THEN 500 ELSE 200

\* Ghost: the chains of url u lose their product
Orphaned(t, u) == IF t.url = u THEN [t EXCEPT !.stale = TRUE] ELSE t

\* Mutant: the rows of a deleted product stay in the ledger
CascadeNone(history, product_id) == history

\* models.py:39-41  cascade="all, delete-orphan": what is left of the ledger
\* when the product is deleted
Cascade(history, product_id) ==
    SelectSeq(history, LAMBDA h : h.product_id # product_id)

\* tracker.py:219-247  DELETE /products/{product_id}; the ORM cascade
\* (models.py:39-41) deletes the product's price_history rows with it.
\* Nothing is read from or written to the broker; only the ghost field of
\* the pending messages and of the invocations in progress is updated.
DeleteProduct(product_id, commit_raises) ==
    LET found == ProductById(product_id)
        deleted == DeleteStatus(found, commit_raises) = 200
        urls == {p.url : p \in found}
    IN /\ products' = IF deleted THEN products \ found ELSE products
       /\ price_history' =
            IF deleted THEN Cascade(price_history, product_id)
            ELSE price_history
       /\ queue' =
            IF deleted
            THEN BagOfAll(LAMBDA t : IF t.url \in urls THEN Orphaned(t, t.url) ELSE t,
                          queue)
            ELSE queue
       /\ running' =
            IF deleted
            THEN [w \in Workers |->
                    IF ~Free(w) /\ running[w].url \in urls
                    THEN Orphaned(running[w], running[w].url) ELSE running[w]]
            ELSE running
       /\ Quiet
       /\ Unrequested
       /\ UNCHANGED next_id
       /\ UNCHANGED <<scraper, call, accounts, manual>>

----------------------------------------------------------------------------
(* routers/tracker.py: check_prices, the manual check of every product *)

\* Mutant: no alert for a price that somebody else has recorded already
TargetReachedOnce(current_price, product) ==
    /\ current_price <= product.target_price
    /\ Cardinality({i \in 1..Len(price_history) :
                      price_history[i] = [product_id |-> product.id,
                                          price |-> current_price]}) <= 1

\* tracker.py:292  current_price <= product.target_price
TargetReached(current_price, product) ==
    current_price <= product.target_price

\* No request is being served.  todo is the part of the list of line 259
\* that the loop has not finished; expired: the session has committed or
\* rolled back a flush, so the next read of an attribute of a product loads
\* its row again; broken: a commit of the session has raised and nothing
\* rolls it back (the handler calls db.rollback() nowhere), so the session
\* emits no more SQL.  notifies counts the calls of
\* send_signal_message_to_group and notifications_sent those that returned;
\* served counts the requests answered (model bound).
NoRequest ==
    [pc |-> "idle", todo |-> <<>>, current_price |-> None, expired |-> FALSE,
     broken |-> FALSE, notifies |-> 0, notifications_sent |-> 0, served |-> 0]

\* tracker.py:259  db.query(DBProduct).all(), in the order of the primary key
RECURSIVE InIdOrder(_)
InIdOrder(ps) ==
    IF ps = {} THEN <<>>
    ELSE LET p == CHOOSE p \in ps : \A q \in ps : p.id <= q.id
         IN <<p>> \o InIdOrder(ps \ {p})

\* What scrape_product_info(url).get("price_float") can be for check_prices
ManualOutcomes == {Raises, None} \cup Prices

\* tracker.py:274, 279, 313, 315-318  continue, or the end of the loop body:
\* the loop moves to the next product, and after the last one the handler
\* returns its message
NextProduct(r) ==
    [r EXCEPT !.todo = Tail(@),
              !.pc = IF Tail(r.todo) = <<>> THEN "responded" ELSE "scrape"]

\* tracker.py:319-321  an exception outside the loop body: HTTP 500
Failed(r) == [r EXCEPT !.pc = "responded"]

\* tracker.py:252-263  POST /check-prices arrives: the list of the products
CheckPrices(query_raises) ==
    /\ manual.pc = "idle"
    /\ manual.served < MaxManual
    /\ manual' =
         IF query_raises \/ products = {} THEN Failed(manual)
         ELSE [manual EXCEPT !.pc = "scrape", !.todo = InIdOrder(products)]
    /\ Quiet
    /\ Unrequested
    /\ UNCHANGED <<products, price_history, next_id, queue, running>>
    /\ UNCHANGED <<scraper, call, accounts>>

\* tracker.py:267  product.title cannot be read: the row has to be loaded
\* again, and it has been deleted (ObjectDeletedError) or the session emits
\* no SQL before a rollback (PendingRollbackError)
TitleUnreadable(r) ==
    r.expired /\ (Head(r.todo) \notin products \/ r.broken)

\* tracker.py:266-279  the next product of the list is scraped.  Line 267
\* reads product.title outside the inner try.
ManualScrape ==
    /\ manual.pc = "scrape"
    /\ \E out \in ManualOutcomes :
         manual' =
           IF TitleUnreadable(manual)
           THEN Failed(manual)
           ELSE IF out \in {Raises, None} THEN NextProduct(manual)
           ELSE [manual EXCEPT !.current_price = out, !.pc = "append"]
    /\ Quiet
    /\ Unrequested
    /\ UNCHANGED <<products, price_history, next_id, queue, running>>
    /\ UNCHANGED <<scraper, call, accounts>>

\* tracker.py:282-288  PriceHistory(...); db.add; db.commit.  The commit
\* raises in the flush (the INSERT fails: the session rolls the flush back,
\* which expires every row it holds) or at the COMMIT itself (nothing
\* expires); either way the session is left to be rolled back, and on a
\* session left so every later commit raises.
ManualAppend ==
    /\ manual.pc = "append"
    /\ \E commit_raises \in BOOLEAN : \E flush_raises \in BOOLEAN :
         LET raises == commit_raises \/ manual.broken
             flushed == raises /\ ~manual.broken /\ flush_raises
         IN
         /\ manual.broken => ~commit_raises /\ ~flush_raises
         /\ ~commit_raises => ~flush_raises
         /\ price_history' =
              IF raises THEN price_history
              ELSE Append(price_history,
                          [product_id |-> Head(manual.todo).id,
                           price |-> manual.current_price])
         /\ manual' =
              IF raises
              THEN NextProduct([manual EXCEPT !.broken = TRUE,
                                              !.expired = @ \/ flushed])
              ELSE [manual EXCEPT !.expired = TRUE, !.pc = "evaluate"]
    /\ Quiet
    /\ Unrequested
    /\ UNCHANGED <<products, next_id, queue, running>>
    /\ UNCHANGED <<scraper, call, accounts>>

\* tracker.py:291-308  compare with the target_price of the row, which is
\* loaded again (ObjectDeletedError if it is gone; TypeError if the
\* threshold is NULL), then send_signal_message_to_group
ManualEvaluate ==
    /\ manual.pc = "evaluate"
    /\ \E send_raises \in BOOLEAN :
         LET product == Head(manual.todo)
             reached == /\ product \in products
                        /\ product.target_price # None
                        /\ TargetReached(manual.current_price, product)
             called == [manual EXCEPT
                           !.notifies = @ + 1,
                           !.notifications_sent =
                               IF send_raises THEN @ ELSE @ + 1]
         IN /\ ~reached => ~send_raises
            /\ manual' = NextProduct(IF reached THEN called ELSE manual)
            /\ signal' = IF reached /\ ~send_raises THEN "target" ELSE "none"
    /\ Unrequested
    /\ UNCHANGED <<products, price_history, next_id, queue, running>>
    /\ UNCHANGED <<scraper, call, accounts>>

\* tracker.py:263, 316-321  the response is sent
Respond ==
    /\ manual.pc = "responded"
    /\ manual' = [NoRequest EXCEPT !.served = manual.served + 1]
    /\ Quiet
    /\ Unrequested
    /\ UNCHANGED <<products, price_history, next_id, queue, running>>
    /\ UNCHANGED <<scraper, call, accounts>>

----------------------------------------------------------------------------
(* services/listener.py: the commands of the Signal bot *)

\* The users who send commands
UserIds == {1, 2}

\* listener.py:188-190  the product of this url that user_id tracks
Existing(u, user_id) == {p \in ProductByUrl(u) : p.user_id = user_id}

\* listener.py:198-206  the threshold stored with the product: 90% of the
\* price when none is given, and "target_price or 0"
CommandTarget(target_price, current_price) ==
    LET tp == IF target_price = None /\ Truthy(current_price)
              THEN Round90(current_price)
              ELSE target_price
    IN IF Truthy(tp) THEN tp ELSE 0

\* listener.py:173-229  "!track <url> [target_price]" from user_id.  out is
\* what scrape_product_info returned (Raises, or price_float: None or cents).
\* The product and its first observation are committed together; the flush
\* raises when another row has the url (models.py:27, unique=True).  Nothing
\* is put on the broker: the function has no call of check_price.
HandleTrackCommand(u, target_price, user_id, out, commit_raises) ==
    LET row == [id |-> next_id, url |-> u,
                target_price |-> CommandTarget(target_price, out),
                user_id |-> user_id]
        stored == /\ Existing(u, user_id) = {}
                  /\ out # Raises
                  /\ ProductByUrl(u) = {}
                  /\ ~commit_raises
    IN /\ Existing(u, user_id) = {} => next_id <= MaxProducts /\ Room
       /\ products' = IF stored THEN products \cup {row} ELSE products
       /\ next_id' = IF stored THEN next_id + 1 ELSE next_id
       /\ price_history' =
            IF stored /\ Truthy(out)
            THEN Append(price_history, [product_id |-> next_id, price |-> out])
            ELSE price_history
       /\ Quiet
       /\ Unrequested
       /\ UNCHANGED <<queue, running>>
       /\ UNCHANGED <<scraper, call, accounts, manual>>

\* listener.py:142-170  "!stop <number>" from user_id: the product at index
\* in the list of the user's products is deleted, as by delete_product
StopTrackingItem(index, user_id, commit_raises) ==
    LET owned == InIdOrder({p \in products : p.user_id = user_id}) IN
    /\ index \in 0..(Len(owned) - 1)
    /\ DeleteProduct(owned[index + 1].id, commit_raises)

----------------------------------------------------------------------------
(* services/scraper.py: texts.  A text is a sequence of pieces, each a run  *)
(* of characters that the code never looks inside: the digits, "$", ",",    *)
(* ".", "|", " " and the letters of a heading that is searched for words    *)
(* are pieces of their own.                                                 *)

\* Python's None where a text is expected
PyNone == <<"None">>

\* "not x" for x a text or None
Falsy(x) == x = PyNone \/ x = <<>>

\* x or y
OrElse(x, y) == IF Falsy(x) THEN y ELSE x

UnknownProduct == <<"Unknown Product">>
PriceNotFound == <<"Price not found">>

\* sub in text
Contains(sub, text) ==
    \E i \in 1..(Len(text) - Len(sub) + 1) :
        SubSeq(text, i, i + Len(sub) - 1) = sub

RECURSIVE LStrip(_)
LStrip(text) ==
    IF text # <<>> /\ Head(text) = " " THEN LStrip(Tail(text)) ELSE text

RECURSIVE RStrip(_)
RStrip(text) ==
    IF text # <<>> /\ text[Len(text)] = " "
    THEN RStrip(SubSeq(text, 1, Len(text) - 1)) ELSE text

\* text.strip()
Strip(text) == RStrip(LStrip(text))

\* text.replace(old, new)
RECURSIVE Replace(_, _, _)
Replace(text, old, new) ==
    IF text = <<>> THEN <<>>
    ELSE IF Len(old) <= Len(text) /\ SubSeq(text, 1, Len(old)) = old
         THEN new \o Replace(SubSeq(text, Len(old) + 1, Len(text)), old, new)
         ELSE <<Head(text)>> \o Replace(Tail(text), old, new)

\* text.split(sep)[0]
RECURSIVE Before(_, _)
Before(text, sep) ==
    IF text = <<>> \/ Head(text) = sep THEN <<>>
    ELSE <<Head(text)>> \o Before(Tail(text), sep)

UpperCase ==
    <<"A", "B", "C", "D", "E", "F", "G", "H", "I", "J", "K", "L", "M",
      "N", "O", "P", "Q", "R", "S", "T", "U", "V", "W", "X", "Y", "Z">>
LowerCase ==
    <<"a", "b", "c", "d", "e", "f", "g", "h", "i", "j", "k", "l", "m",
      "n", "o", "p", "q", "r", "s", "t", "u", "v", "w", "x", "y", "z">>

LowerPiece(p) ==
    IF \E i \in 1..Len(UpperCase) : UpperCase[i] = p
    THEN LowerCase[CHOOSE i \in 1..Len(UpperCase) : UpperCase[i] = p]
    ELSE p

\* text.lower()
Lower(text) == [i \in 1..Len(text) |-> LowerPiece(text[i])]

\* len(text)
RECURSIVE Length(_)
Length(text) ==
    IF text = <<>> THEN 0 ELSE Len(Head(text)) + Length(Tail(text))

IsDigit(p) == p \in {"0", "1", "2", "3", "4", "5", "6", "7", "8", "9"}

\* \d+ from position i: the position after the digits
RECURSIVE DigitsEnd(_, _)
DigitsEnd(text, i) ==
    IF i <= Len(text) /\ IsDigit(text[i]) THEN DigitsEnd(text, i + 1) ELSE i

\* (?:,\d+)* from position i
RECURSIVE GroupsEnd(_, _)
GroupsEnd(text, i) ==
    IF i + 1 <= Len(text) /\ text[i] = "," /\ IsDigit(text[i + 1])
    THEN GroupsEnd(text, DigitsEnd(text, i + 1)) ELSE i

\* (?:\.\d{2})? from position i
CentsEnd(text, i) ==
    IF i + 2 <= Len(text) /\ text[i] = "."
         /\ IsDigit(text[i + 1]) /\ IsDigit(text[i + 2])
    THEN i + 3 ELSE i

\* scraper.py:448, 452-454  re.search(r"\$(\d+(?:,\d+)*(?:\.\d{2})?)", text):
\* group(1) of the leftmost match, None if there is none
PriceMatch(text) ==
    LET starts == {i \in 1..(Len(text) - 1) :
                     text[i] = "$" /\ IsDigit(text[i + 1])}
        i == CHOOSE k \in starts : \A m \in starts : k <= m
    IN IF starts = {} THEN PyNone
       ELSE SubSeq(text, i + 1,
                   CentsEnd(text, GroupsEnd(text, DigitsEnd(text, i + 1))) - 1)

----------------------------------------------------------------------------
(* The parsed page: its elements in document order.  attrs maps attribute   *)
(* names to texts, within names the ancestors a CSS selector of the code    *)
(* asks for, json is the decoded content of a script element.               *)

JNone == [j |-> "none"]
JInvalid == [j |-> "invalid"]
JText(text) == [j |-> "str", text |-> text]
JList(items) == [j |-> "list", items |-> items]
JDict(fields) == [j |-> "dict", fields |-> fields]

\* d.get(k)
JGet(d, k) == IF k \in DOMAIN d.fields THEN d.fields[k] ELSE JNone

\* "if v:" for a decoded JSON value
JTruthy(v) ==
    CASE v.j = "str" -> v.text # <<>>
      [] v.j = "list" -> v.items # <<>>
      [] v.j = "dict" -> DOMAIN v.fields # {}
      [] OTHER -> FALSE

Element(tag, attrs, within, text) ==
    [tag |-> tag, attrs |-> attrs, within |-> within, text |-> text,
     json |-> JNone]

Script(json) ==
    [tag |-> "script", attrs |-> ("type" :> <<"application/ld+json">>),
     within |-> {}, text |-> <<>>, json |-> json]

Has(e, a) == a \in DOMAIN e.attrs

\* e.get(a), e.get_attribute(a)
Get(e, a) == IF Has(e, a) THEN e.attrs[a] ELSE PyNone

Is(e, a, v) == Has(e, a) /\ e.attrs[a] = <<v>>

\* soup.find_all, soup.select and driver.find_elements are SelectSeq: the
\* elements that pass the test, in document order

\* soup.find(tag, {a: v})
Find(page, tag, a, v) ==
    SelectSeq(page, LAMBDA e : e.tag = tag /\ Is(e, a, v))

\* e.get_text(strip=True), and the text property of a WebElement
get_text(e) == Strip(e.text)

\* the text of the first match, None if there is no match
TextOf(matches) == IF matches = <<>> THEN PyNone ELSE get_text(matches[1])

\* the attribute a of the first match, None if there is no match
AttrOf(matches, a) == IF matches = <<>> THEN PyNone ELSE Get(matches[1], a)

\* class_=lambda c: c and word in c  (lower: in c.lower())
ClassHas(e, word, lower) ==
    /\ Has(e, "class")
    /\ Contains(word, IF lower THEN Lower(e.attrs["class"]) ELSE e.attrs["class"])

\* the words searched for inside class and id attributes
price_word == <<"p", "r", "i", "c", "e">>
product_word == <<"p", "r", "o", "d", "u", "c", "t">>

----------------------------------------------------------------------------
(* scraper.py:22-101  structured data and social metadata *)

RECURSIVE find_product_in_json_ld(_)
RECURSIVE find_product_in_items(_)

\* scraper.py:22-38  _find_product_in_json_ld
find_product_in_json_ld(data) ==
    IF data.j = "dict"
    THEN LET type_val == JGet(data, "@type")
             is_product ==
                 \/ type_val.j = "str" /\ type_val.text = <<"Product">>
                 \/ /\ type_val.j = "list"
                    /\ \E i \in 1..Len(type_val.items) :
                         /\ type_val.items[i].j = "str"
                         /\ type_val.items[i].text = <<"Product">>
         IN IF is_product THEN data
            ELSE IF "@graph" \in DOMAIN data.fields
                 THEN find_product_in_json_ld(data.fields["@graph"])
                 ELSE JNone
    ELSE IF data.j = "list" THEN find_product_in_items(data.items)
    ELSE JNone

\* scraper.py:34-37  the loop over a list
find_product_in_items(items) ==
    IF items = <<>> THEN JNone
    ELSE LET result == find_product_in_json_ld(Head(items)) IN
         IF JTruthy(result) THEN result
         ELSE find_product_in_items(Tail(items))

\* Mutant: the price is returned as it is written in the offer
extract_price_as_written(offers) ==
    LET offer == IF offers.j = "list"
                 THEN (IF offers.items # <<>> THEN offers.items[1] ELSE JDict(<<>>))
                 ELSE offers
    IN IF offer.j = "dict" /\ JTruthy(JGet(offer, "price"))
       THEN JGet(offer, "price").text ELSE PyNone

\* scraper.py:41-54  _extract_price_from_offers
extract_price_from_offers(offers) ==
    LET offer == IF offers.j = "list"
                 THEN (IF offers.items # <<>> THEN offers.items[1] ELSE JDict(<<>>))
                 ELSE offers
    IN IF offer.j = "dict"
       THEN LET price == JGet(offer, "price")
                low_price == JGet(offer, "lowPrice")
            IN IF JTruthy(price) THEN <<"$">> \o price.text
               ELSE IF JTruthy(low_price) THEN <<"$">> \o low_price.text
               ELSE PyNone
       ELSE PyNone

\* scraper.py:59  soup.find_all("script", type="application/ld+json")
JsonLdScripts(page) == Find(page, "script", "type", "application/ld+json")

\* scraper.py:60-71  the loop of extract_price_from_json_ld
RECURSIVE price_from_scripts(_)
price_from_scripts(scripts) ==
    IF scripts = <<>> THEN PyNone
    ELSE LET data == Head(scripts).json
             product == IF data.j = "invalid" THEN JNone
                        ELSE find_product_in_json_ld(data)
             price == IF JTruthy(product)
                      THEN extract_price_from_offers(
                               IF "offers" \in DOMAIN product.fields
                               THEN product.fields["offers"] ELSE JDict(<<>>))
                      ELSE PyNone
         IN IF ~Falsy(price) THEN price
            ELSE price_from_scripts(Tail(scripts))

\* scraper.py:57-71
extract_price_from_json_ld(page) == price_from_scripts(JsonLdScripts(page))

\* scraper.py:77-85  the loop of extract_title_from_json_ld
RECURSIVE title_from_scripts(_)
title_from_scripts(scripts) ==
    IF scripts = <<>> THEN PyNone
    ELSE LET data == Head(scripts).json
             product == IF data.j = "invalid" THEN JNone
                        ELSE find_product_in_json_ld(data)
         IN IF JTruthy(product) /\ JTruthy(JGet(product, "name"))
            THEN JGet(product, "name").text
            ELSE title_from_scripts(Tail(scripts))

\* scraper.py:74-85
extract_title_from_json_ld(page) == title_from_scripts(JsonLdScripts(page))

\* scraper.py:88-93
extract_og_title(page) ==
    LET og_title == Find(page, "meta", "property", "og:title") IN
    IF og_title # <<>> /\ ~Falsy(Get(og_title[1], "content"))
    THEN Get(og_title[1], "content") ELSE PyNone

\* scraper.py:96-101
extract_og_price(page) ==
    LET og_price == Find(page, "meta", "property", "og:price:amount") IN
    IF og_price # <<>> /\ ~Falsy(Get(og_price[1], "content"))
    THEN <<"$">> \o Get(og_price[1], "content") ELSE PyNone

----------------------------------------------------------------------------
(* scraper.py:127-462  the adapters.  driver and soup see the same page.   *)
(* For each adapter and field, the values its candidates yield on the page  *)
(* are listed first, in the order of the code: the text or attribute read   *)
(* from the candidate's element, None if the page has no such element.      *)

\* The least number of a set of positions
First(S) == CHOOSE i \in S : \A k \in S : i <= k

\* x, unless the candidate's element is missing
IfFound(x, y) == IF x # PyNone THEN x ELSE y

\* scraper.py:134-136
amazon_titles(page) == <<TextOf(Find(page, "span", "id", "productTitle"))>>

\* scraper.py:141-156, 161-162
amazon_prices(page) ==
    LET by_driver == SelectSeq(page, LAMBDA e : Is(e, "class", "a-offscreen")
                                             /\ "a-price" \in e.within)
    IN <<TextOf(Find(page, "span", "id", "priceblock_ourprice")),
         TextOf(Find(page, "span", "id", "priceblock_dealprice")),
         TextOf(Find(page, "span", "class", "a-offscreen")),
         TextOf(Find(page, "span", "class", "a-price-whole")),
         IF by_driver = <<>> THEN PyNone ELSE by_driver[1].text>>

\* scraper.py:127-172
scrape_amazon(page) ==
    LET price == amazon_prices(page)
        \* lines 148-156: the loop ends at the first element that exists
        found == {i \in 1..4 : price[i] # PyNone}
        from_soup == IF found = {} THEN PyNone ELSE price[First(found)]
        \* lines 159-165
        product_price == IF Falsy(from_soup) THEN IfFound(price[5], from_soup)
                         ELSE from_soup
    IN [title |-> IfFound(amazon_titles(page)[1], UnknownProduct),
        price |-> OrElse(product_price, PriceNotFound)]

\* scraper.py:182-185
walmart_titles(page) ==
    <<TextOf(Find(page, "h1", "itemprop", "name")),
      TextOf(Find(page, "h1", "class", "prod-ProductTitle"))>>

\* scraper.py:192-193, 198  the elements the two selectors find
walmart_price_elements(page) ==
    <<SelectSeq(page, LAMBDA e : e.tag = "span" /\ Is(e, "itemprop", "price")
                              /\ "price-wrap" \in e.within),
      SelectSeq(page, LAMBDA e : Is(e, "class", "price-characteristic"))>>

\* scraper.py:175-205
scrape_walmart(page) ==
    LET title == walmart_titles(page)
        price_element == walmart_price_elements(page)
    IN [title |-> IfFound(title[1], IfFound(title[2], UnknownProduct)),
        price |-> IF price_element[1] # <<>>
                  THEN AttrOf(price_element[1], "content")
                  ELSE IF price_element[2] # <<>>
                       THEN AttrOf(price_element[2], "content")
                       ELSE PriceNotFound]

\* scraper.py:215-216
bestbuy_titles(page) == <<TextOf(Find(page, "h1", "class", "heading-5"))>>

\* scraper.py:223-224
bestbuy_prices(page) ==
    <<TextOf(SelectSeq(page, LAMBDA e : e.tag = "span"
                        /\ "priceView-customer-price" \in e.within))>>

\* scraper.py:208-230
scrape_bestbuy(page) ==
    [title |-> IfFound(bestbuy_titles(page)[1], UnknownProduct),
     price |-> IfFound(bestbuy_prices(page)[1], PriceNotFound)]

\* scraper.py:240-241
target_titles(page) ==
    <<TextOf(Find(page, "h1", "data-test", "product-title"))>>

\* scraper.py:248-249
target_prices(page) ==
    <<TextOf(SelectSeq(page, LAMBDA e : Is(e, "data-test", "product-price")))>>

\* scraper.py:233-255
scrape_target(page) ==
    [title |-> IfFound(target_titles(page)[1], UnknownProduct),
     price |-> IfFound(target_prices(page)[1], PriceNotFound)]

\* scraper.py:265-269
ebay_titles(page) ==
    LET heading == TextOf(Find(page, "h1", "id", "itemTitle")) IN
    <<IF heading = PyNone THEN PyNone
      ELSE Strip(Replace(heading, <<"Details about">>, <<>>))>>

\* scraper.py:276, 280  the elements the two selectors find
ebay_price_elements(page) ==
    <<SelectSeq(page, LAMBDA e : Is(e, "id", "prcIsum")),
      SelectSeq(page, LAMBDA e : Is(e, "id", "mm-saleDscPrc"))>>

\* scraper.py:258-287
scrape_ebay(page) ==
    LET price_element == ebay_price_elements(page) IN
    [title |-> IfFound(ebay_titles(page)[1], UnknownProduct),
     price |-> IF price_element[1] # <<>>
               THEN AttrOf(price_element[1], "content")
               ELSE IF price_element[2] # <<>> THEN TextOf(price_element[2])
                    ELSE PriceNotFound]

\* scraper.py:296-306
sephora_titles(page) ==
    LET og_title == extract_og_title(page) IN
    <<TextOf(Find(page, "span", "data-at", "product_name")),
      TextOf(SelectSeq(page, LAMBDA e : e.tag = "h1"
                                     /\ ClassHas(e, <<"ProductName">>, FALSE))),
      IF Falsy(og_title) THEN PyNone ELSE Strip(Before(og_title, "|"))>>

\* scraper.py:312-322
sephora_prices(page) ==
    <<TextOf(Find(page, "span", "data-at", "price")),
      extract_price_from_json_ld(page),
      TextOf(SelectSeq(page, LAMBDA e :
                 \/ e.tag = "b" /\ "data-comp=Price" \in e.within
                 \/ Is(e, "data-at", "price")))>>

\* scraper.py:290-329
scrape_sephora(page) ==
    LET title == sephora_titles(page)
        price == sephora_prices(page)
    IN [title |-> OrElse(OrElse(OrElse(title[1], title[2]), title[3]),
                         UnknownProduct),
        price |-> OrElse(OrElse(OrElse(price[1], price[2]), price[3]),
                         PriceNotFound)]

\* scraper.py:352-356, 393-397  the first span whose class has "price" in
\* it, if its text has a "$" in it
PriceSpan(page) ==
    LET price_text == TextOf(SelectSeq(page, LAMBDA e :
                                e.tag = "span" /\ ClassHas(e, price_word, TRUE)))
    IN IF ~Falsy(price_text) /\ Contains(<<"$">>, price_text)
       THEN price_text ELSE PyNone

\* scraper.py:337-345
dedcool_titles(page) ==
    <<extract_og_title(page),
      TextOf(SelectSeq(page, LAMBDA e : e.tag = "h1" /\ ClassHas(e, product_word, TRUE))),
      TextOf(SelectSeq(page, LAMBDA e : e.tag = "h1"))>>

\* scraper.py:350-358
dedcool_prices(page) ==
    <<extract_price_from_json_ld(page), PriceSpan(page), extract_og_price(page)>>

\* scraper.py:332-363
scrape_dedcool(page) ==
    LET title == dedcool_titles(page)
        price == dedcool_prices(page)
    IN [title |-> OrElse(OrElse(OrElse(title[1], title[2]), title[3]),
                         UnknownProduct),
        price |-> OrElse(OrElse(OrElse(price[1], price[2]), price[3]),
                         PriceNotFound)]

\* scraper.py:372-380
costco_titles(page) ==
    <<TextOf(Find(page, "h1", "automation-id", "productName")),
      TextOf(Find(page, "h1", "id", "product-title")),
      extract_og_title(page)>>

\* scraper.py:385-397
costco_prices(page) ==
    <<extract_price_from_json_ld(page),
      TextOf(SelectSeq(page, LAMBDA e : Is(e, "automation-id", "productPrice"))),
      PriceSpan(page)>>

\* scraper.py:366-402
scrape_costco(page) ==
    LET title == costco_titles(page)
        price == costco_prices(page)
    IN [title |-> OrElse(OrElse(OrElse(title[1], title[2]), title[3]),
                         UnknownProduct),
        price |-> OrElse(OrElse(OrElse(price[1], price[2]), price[3]),
                         PriceNotFound)]

\* scraper.py:414-418  the first h1 that has one of the attributes
HeadingByAttr(page) ==
    LET attrs == <<"itemprop", "data-product", "data-name">>
        elem(i) == SelectSeq(page, LAMBDA e : e.tag = "h1" /\ Has(e, attrs[i]))
        found == {i \in 1..Len(attrs) : elem(i) # <<>>}
    IN IF found = {} THEN PyNone ELSE TextOf(elem(First(found)))

\* scraper.py:420
skip_words ==
    << <<"m", "e", "n", "u">>,
       <<"n", "a", "v", "i", "g", "a", "t", "i", "o", "n">>,
       <<"c", "a", "r", "t">>, <<"s", "e", "a", "r", "c", "h">>,
       <<"l", "o", "g", "i", "n">>, <<"s", "i", "g", "n">>,
       <<"l", "i", "s", "t">> >>

\* scraper.py:423  the test on a heading
Plausible(e) ==
    LET text == get_text(e) IN
    /\ e.tag = "h1"
    /\ text # <<>> /\ Length(text) > 5
    /\ ~\E i \in 1..Len(skip_words) : Contains(skip_words[i], Lower(text))

\* scraper.py:421-425  the first h1 that reads like a product name
HeadingByText(page) == TextOf(SelectSeq(page, Plausible))

\* scraper.py:432-436  the element with itemprop="price"
PriceByItemprop(page) ==
    LET price_elem == SelectSeq(page, LAMBDA e : Is(e, "itemprop", "price"))
        price_content ==
            IF price_elem = <<>> THEN PyNone
            ELSE OrElse(Get(price_elem[1], "content"), get_text(price_elem[1]))
    IN IF Falsy(price_content) THEN PyNone
       ELSE IF Contains(<<"$">>, price_content) THEN price_content
       ELSE <<"$">> \o price_content

\* scraper.py:440-446  data-price, then data-product-price
PriceByDataAttr(page) ==
    LET attrs == <<"data-price", "data-product-price">>
        value(i) == AttrOf(SelectSeq(page, LAMBDA e : Has(e, attrs[i])), attrs[i])
        found == {i \in 1..Len(attrs) : ~Falsy(value(i))}
    IN IF found = {} THEN PyNone ELSE <<"$">> \o value(First(found))

\* scraper.py:448-457  the first "$" amount in the text of an element whose
\* class or id has "price" in it, or that has a data-price attribute
PriceByPattern(page) ==
    LET by_class == SelectSeq(page, LAMBDA e : ClassHas(e, price_word, FALSE)
                                            /\ PriceMatch(e.text) # PyNone)
        by_id == SelectSeq(page, LAMBDA e : Has(e, "id")
                                         /\ Contains(price_word, e.attrs["id"])
                                         /\ PriceMatch(e.text) # PyNone)
        by_data == SelectSeq(page, LAMBDA e : Has(e, "data-price")
                                           /\ PriceMatch(e.text) # PyNone)
        elems == by_class \o by_id \o by_data
    IN IF elems = <<>> THEN PyNone ELSE <<"$">> \o PriceMatch(elems[1].text)

\* scraper.py:410-425
generic_titles(page) ==
    <<extract_og_title(page), extract_title_from_json_ld(page),
      HeadingByAttr(page), HeadingByText(page)>>

\* scraper.py:430-457
generic_prices(page) ==
    <<extract_price_from_json_ld(page), PriceByItemprop(page),
      extract_og_price(page), PriceByDataAttr(page), PriceByPattern(page)>>

\* scraper.py:405-462
scrape_generic(page) ==
    LET title == generic_titles(page)
        price == generic_prices(page)
    IN [title |-> OrElse(OrElse(OrElse(OrElse(title[1], title[2]), title[3]),
                                title[4]),
                         UnknownProduct),
        price |-> OrElse(OrElse(OrElse(OrElse(OrElse(price[1], price[2]),
                                              price[3]),
                                       price[4]),
                                price[5]),
                         PriceNotFound)]

WebsiteTypes ==
    {"amazon", "walmart", "bestbuy", "target", "ebay", "sephora", "dedcool",
     "costco", "generic"}

\* scraper.py:517-528  scraper_map.get(website_type, scrape_generic)(driver, soup)
scraper_func(kind, page) ==
    CASE kind = "amazon" -> scrape_amazon(page)
      [] kind = "walmart" -> scrape_walmart(page)
      [] kind = "bestbuy" -> scrape_bestbuy(page)
      [] kind = "target" -> scrape_target(page)
      [] kind = "ebay" -> scrape_ebay(page)
      [] kind = "sephora" -> scrape_sephora(page)
      [] kind = "dedcool" -> scrape_dedcool(page)
      [] kind = "costco" -> scrape_costco(page)
      [] OTHER -> scrape_generic(page)

----------------------------------------------------------------------------
(* utils/pricing.py.  A float is the decimal m / 10^e it was read from, in   *)
(* lowest terms (e = 0, or m is not a multiple of 10); NoFloat is None.      *)

NoFloat == [m |-> 0 - 1, e |-> 0]

\* float(token) raised ValueError
FloatRaises == [m |-> 0 - 2, e |-> 0]

RECURSIVE Decimal(_, _)
Decimal(m, e) ==
    IF e > 0 /\ m % 10 = 0 THEN Decimal(m \div 10, e - 1) ELSE [m |-> m, e |-> e]

RECURSIVE Pow10(_)
Pow10(e) == IF e = 0 THEN 1 ELSE 10 * Pow10(e - 1)

Digits == <<"0", "1", "2", "3", "4", "5", "6", "7", "8", "9">>

DigitValue(p) == (CHOOSE i \in 1..10 : Digits[i] = p) - 1

\* the number a run of digits denotes
RECURSIVE NumberOf(_)
NumberOf(digits) ==
    IF digits = <<>> THEN 0
    ELSE 10 * NumberOf(SubSeq(digits, 1, Len(digits) - 1))
         + DigitValue(digits[Len(digits)])

\* the decimal digits of a natural number
RECURSIVE IntText(_)
IntText(n) ==
    IF n < 10 THEN <<Digits[n + 1]>>
    ELSE IntText(n \div 10) \o <<Digits[(n % 10) + 1]>>

\* what float() accepts among the texts made of digits and points: digits
\* with at most one point among them
IsFloatLiteral(token) ==
    /\ \E i \in 1..Len(token) : IsDigit(token[i])
    /\ \A i \in 1..Len(token) : IsDigit(token[i]) \/ token[i] = "."
    /\ Cardinality({i \in 1..Len(token) : token[i] = "."}) <= 1

\* pricing.py:17  float(match.group())
ToFloat(token) ==
    IF ~IsFloatLiteral(token) THEN FloatRaises
    ELSE LET points == {i \in 1..Len(token) : token[i] = "."}
             point == IF points = {} THEN Len(token) + 1
                      ELSE CHOOSE i \in points : TRUE
             whole == SubSeq(token, 1, point - 1)
             fraction == SubSeq(token, point + 1, Len(token))
         IN Decimal(NumberOf(whole \o fraction), Len(fraction))

\* pricing.py:15  re.search(r"\d+\.?\d*", cleaned): the leftmost match, None
\* if there is none
NumberMatch(cleaned) ==
    LET starts == {i \in 1..Len(cleaned) : IsDigit(cleaned[i])}
        i == CHOOSE k \in starts : \A n \in starts : k <= n
        whole == DigitsEnd(cleaned, i)
        point == IF whole <= Len(cleaned) /\ cleaned[whole] = "."
                 THEN whole + 1 ELSE whole
    IN IF starts = {} THEN PyNone
       ELSE SubSeq(cleaned, i, DigitsEnd(cleaned, point) - 1)

\* Mutant: the thousands separators are left in
parse_price_with_commas(price_str) ==
    IF Falsy(price_str) \/ price_str = PriceNotFound THEN NoFloat
    ELSE IF NumberMatch(price_str) # PyNone THEN ToFloat(NumberMatch(price_str))
    ELSE NoFloat

\* pricing.py:4-18
parse_price(price_str) ==
    IF Falsy(price_str) \/ price_str = PriceNotFound THEN NoFloat
    ELSE LET cleaned == Replace(price_str, <<",">>, <<>>)
             match == NumberMatch(cleaned)
         IN IF match # PyNone THEN ToFloat(match) ELSE NoFloat

\* f"{price:.2f}": the hundredths of the decimal nearest to price.  Exact
\* when price has at most two decimals; halfway between two hundredths the
\* binary float decides, here the even one is taken.
Hundredths(price) ==
    IF price.e <= 2 THEN price.m * Pow10(2 - price.e)
    ELSE LET unit == Pow10(price.e - 2)
             low == price.m \div unit
             rest == price.m % unit
         IN IF 2 * rest > unit \/ (2 * rest = unit /\ low % 2 = 1)
            THEN low + 1 ELSE low

\* Mutant: the price is formatted without its hundredths
format_price_whole(price) ==
    IF price = NoFloat THEN PriceNotFound
    ELSE <<"$">> \o IntText(Hundredths(price) \div 100)

\* pricing.py:21-25
format_price(price) ==
    IF price = NoFloat THEN PriceNotFound
    ELSE LET cents == Hundredths(price) IN
         <<"$">> \o IntText(cents \div 100) \o <<".">>
           \o <<Digits[((cents \div 10) % 10) + 1], Digits[(cents % 10) + 1]>>

----------------------------------------------------------------------------
(* scraper.py:104-124  the kind of site of a URL.  A URL is what urlparse    *)
(* splits it into; the network location is a text of single characters.     *)

Url(userinfo, host, port, path) ==
    [userinfo |-> userinfo, host |-> host, port |-> port, path |-> path]

\* urlparse(url).netloc: [userinfo@]host[:port]
netloc(url) ==
    (IF url.userinfo = <<>> THEN <<>> ELSE url.userinfo \o <<"@">>)
      \o url.host
      \o (IF url.port = <<>> THEN <<>> ELSE <<":">> \o url.port)

\* scraper.py:104-113  keyword and kind, in the order of the table
DOMAIN_TO_WEBSITE_TYPE ==
    <<[keyword |-> <<"a", "m", "a", "z", "o", "n">>,
       website_type |-> "amazon"],
      [keyword |-> <<"w", "a", "l", "m", "a", "r", "t">>,
       website_type |-> "walmart"],
      [keyword |-> <<"b", "e", "s", "t", "b", "u", "y">>,
       website_type |-> "bestbuy"],
      [keyword |-> <<"t", "a", "r", "g", "e", "t">>,
       website_type |-> "target"],
      [keyword |-> <<"e", "b", "a", "y">>,
       website_type |-> "ebay"],
      [keyword |-> <<"s", "e", "p", "h", "o", "r", "a">>,
       website_type |-> "sephora"],
      [keyword |-> <<"d", "e", "d", "c", "o", "o", "l">>,
       website_type |-> "dedcool"],
      [keyword |-> <<"c", "o", "s", "t", "c", "o">>,
       website_type |-> "costco"]>>

\* scraper.py:116-124
get_website_type(url) ==
    LET domain == Lower(netloc(url))
        found == {i \in 1..Len(DOMAIN_TO_WEBSITE_TYPE) :
                    Contains(DOMAIN_TO_WEBSITE_TYPE[i].keyword, domain)}
    IN IF found = {} THEN "generic"
       ELSE DOMAIN_TO_WEBSITE_TYPE[First(found)].website_type

\* The URLs the model draws from
Hosts ==
    <<<<"w", "w", "w", ".", "a", "m", "a", "z", "o", "n", ".", "c", "o", "m">>,
      <<"W", "W", "W", ".", "A", "m", "a", "z", "o", "n", ".", "C", "O", ".", "U", "K">>,
      <<"w", "w", "w", ".", "w", "a", "l", "m", "a", "r", "t", ".", "c", "o", "m">>,
      <<"w", "w", "w", ".", "b", "e", "s", "t", "b", "u", "y", ".", "c", "o", "m">>,
      <<"w", "w", "w", ".", "t", "a", "r", "g", "e", "t", ".", "c", "o", "m">>,
      <<"w", "w", "w", ".", "e", "b", "a", "y", ".", "c", "o", "m">>,
      <<"w", "w", "w", ".", "s", "e", "p", "h", "o", "r", "a", ".", "c", "o", "m">>,
      <<"d", "e", "d", "c", "o", "o", "l", ".", "c", "o", "m">>,
      <<"w", "w", "w", ".", "c", "o", "s", "t", "c", "o", ".", "c", "o", "m">>,
      <<"w", "w", "w", ".", "e", "x", "a", "m", "p", "l", "e", ".", "c", "o", "m">>,
      <<"t", "a", "r", "g", "e", "t", ".", "a", "m", "a", "z", "o", "n", ".", "c", "o", "m">>,
      <<"e", "b", "a", "y", ".", "c", "o", "s", "t", "c", "o", ".", "c", "o", "m">>,
      <<"s", "h", "o", "p", ".", "a", "m", "a", "z", "o", ".", "n", "e", "t">>,
      <<>>>>

UserInfos == <<<<>>, <<"e", "b", "a", "y">>>>
Ports == <<<<>>, <<"8", "0", "8", "0">>>>
Paths == <<<<"/", "p", "r", "o", "d", "u", "c", "t">>, <<"/", "a", "m", "a", "z", "o", "n", "/", "i", "t", "e", "m", "?", "r", "e", "f", "=", "w", "a", "l", "m", "a", "r", "t">>>>

\* the page of a product on a site of the kind
SiteUrl(kind) ==
    LET named == {i \in 1..Len(DOMAIN_TO_WEBSITE_TYPE) :
                    DOMAIN_TO_WEBSITE_TYPE[i].website_type = kind}
        site == IF named = {} THEN <<"e", "x", "a", "m", "p", "l", "e">>
                ELSE DOMAIN_TO_WEBSITE_TYPE[CHOOSE i \in named : TRUE].keyword
    IN Url(<<>>, <<"w", "w", "w", ".">> \o site \o <<".", "c", "o", "m">>, <<>>, Paths[1])

----------------------------------------------------------------------------
(* Pages.  A page served to an adapter is a selection, in document order,   *)
(* of at most MaxElements elements of the adapter's pool.                   *)

DeskLamp == <<"D", "e", "s", "k", " ", "L", "a", "m", "p">>

\* the text of an amount, e.g. 48.00
Amount(a, b) == <<a, b, ".", "0", "0">>
Dollars(a, b) == <<"$">> \o Amount(a, b)

\* {"@type": "Product", "offers": {"price": "48.00"}}
LdProduct ==
    Script(JDict(("@type" :> JText(<<"Product">>))
                 @@ ("offers" :> JDict("price" :> JText(Amount("4", "8"))))))

\* {"@graph": [{"@type": "WebPage"}, {"@type": ["Thing", "Product"],
\*   "name": "Desk Lamp", "offers": [{"@type": "AggregateOffer",
\*   "lowPrice": "45.00"}]}]}
LdGraph ==
    Script(JDict("@graph" :> JList(
        <<JDict("@type" :> JText(<<"WebPage">>)),
          JDict(("@type" :> JList(<<JText(<<"Thing">>), JText(<<"Product">>)>>))
                @@ ("name" :> JText(DeskLamp))
                @@ ("offers" :> JList(
                      <<JDict(("@type" :> JText(<<"AggregateOffer">>))
                              @@ ("lowPrice" :> JText(Amount("4", "5"))))>>)))>>)))

\* a script whose content json.loads rejects
LdInvalid == Script(JInvalid)

Pool(kind) ==
    CASE kind = "amazon" ->
           <<Element("span", "id" :> <<"productTitle">>, {}, DeskLamp),
             LdProduct,
             Element("span", "id" :> <<"priceblock_ourprice">>, {}, <<" ">>),
             Element("span", "id" :> <<"priceblock_dealprice">>, {}, Dollars("1", "1")),
             Element("span", "class" :> <<"a-offscreen">>, {"a-price"}, Dollars("1", "2")),
             Element("span", "class" :> <<"a-price-whole">>, {}, <<"1", "3">>)>>
      [] kind = "walmart" ->
           <<Element("h1", "itemprop" :> <<"name">>, {}, <<>>),
             Element("h1", "class" :> <<"prod-ProductTitle">>, {}, DeskLamp),
             LdProduct,
             Element("span", "itemprop" :> <<"price">>, {"price-wrap"}, Dollars("2", "0")),
             Element("span", ("itemprop" :> <<"price">>) @@ ("content" :> Amount("2", "0")),
                     {"price-wrap"}, Dollars("2", "0")),
             Element("div", ("class" :> <<"price-characteristic">>)
                            @@ ("content" :> Amount("2", "1")), {}, <<"2", "1">>)>>
      [] kind = "bestbuy" ->
           <<Element("h1", "class" :> <<"heading-5">>, {}, DeskLamp),
             LdProduct,
             Element("span", <<>>, {"priceView-customer-price"}, <<>>),
             Element("span", <<>>, {"priceView-customer-price"}, Dollars("3", "0"))>>
      [] kind = "target" ->
           <<Element("h1", "data-test" :> <<"product-title">>, {}, DeskLamp),
             LdProduct,
             Element("span", "data-test" :> <<"product-price">>, {}, <<>>),
             Element("span", "data-test" :> <<"product-price">>, {}, Dollars("3", "1"))>>
      [] kind = "ebay" ->
           <<Element("h1", "id" :> <<"itemTitle">>, {},
                     <<"Details about", " ", " ">> \o DeskLamp),
             LdProduct,
             Element("span", "id" :> <<"prcIsum">>, {}, Dollars("3", "2")),
             Element("span", ("id" :> <<"prcIsum">>) @@ ("content" :> Amount("3", "2")),
                     {}, Dollars("3", "2")),
             Element("span", "id" :> <<"mm-saleDscPrc">>, {}, Dollars("3", "3"))>>
      [] kind = "sephora" ->
           <<Element("span", "data-at" :> <<"product_name">>, {}, <<>>),
             Element("h1", "class" :> <<"css-", "ProductName">>, {}, DeskLamp),
             Element("meta", ("property" :> <<"og:title">>)
                             @@ ("content" :> DeskLamp \o <<" ", "|", " ", "Sephora">>),
                     {}, <<>>),
             LdProduct,
             Element("span", "data-at" :> <<"price">>, {}, <<>>),
             Element("span", "data-at" :> <<"price">>, {}, Dollars("3", "4")),
             Element("b", <<>>, {"data-comp=Price"}, Dollars("3", "5"))>>
      [] kind = "dedcool" ->
           <<Element("meta", ("property" :> <<"og:title">>) @@ ("content" :> DeskLamp),
                     {}, <<>>),
             Element("h1", "class" :> <<"P", "r", "o", "d", "u", "c", "t", "-title">>,
                     {}, <<>>),
             Element("h1", <<>>, {}, DeskLamp),
             LdInvalid,
             LdProduct,
             Element("span", "class" :> <<"P", "r", "i", "c", "e">>, {}, Amount("3", "6")),
             Element("span", "class" :> price_word, {}, Dollars("3", "7")),
             Element("meta", ("property" :> <<"og:price:amount">>)
                             @@ ("content" :> Amount("3", "8")), {}, <<>>)>>
      [] kind = "costco" ->
           <<Element("h1", "automation-id" :> <<"productName">>, {}, <<>>),
             Element("h1", "id" :> <<"product-title">>, {}, DeskLamp),
             Element("meta", ("property" :> <<"og:title">>) @@ ("content" :> DeskLamp),
                     {}, <<>>),
             LdGraph,
             LdProduct,
             Element("div", "automation-id" :> <<"productPrice">>, {}, Dollars("3", "9")),
             Element("span", "class" :> price_word, {}, Dollars("4", "0"))>>
      [] OTHER ->
           <<Element("meta", ("property" :> <<"og:title">>) @@ ("content" :> DeskLamp),
                     {}, <<>>),
             LdInvalid,
             LdGraph,
             LdProduct,
             Element("h1", "itemprop" :> <<"name">>, {}, <<>>),
             Element("h1", "data-name" :> <<"lamp">>, {}, DeskLamp),
             Element("h1", <<>>, {}, <<"W", "i", "s", "h", "l", "i", "s", "t">>),
             Element("h1", <<>>, {}, DeskLamp),
             Element("span", ("itemprop" :> <<"price">>) @@ ("content" :> Amount("4", "1")),
                     {}, <<>>),
             Element("meta", ("property" :> <<"og:price:amount">>)
                             @@ ("content" :> Amount("4", "2")), {}, <<>>),
             Element("div", "data-price" :> <<>>, {}, <<>>),
             Element("div", "data-product-price" :> Amount("4", "3"), {}, <<>>),
             Element("div", "class" :> <<"sale-">> \o price_word, {},
                     <<"Now", " ">> \o Dollars("4", "4"))>>

\* The elements of pool at the positions in keep, in their order
RECURSIVE Keep(_, _, _)
Keep(pool, keep, i) ==
    IF i > Len(pool) THEN <<>>
    ELSE (IF i \in keep THEN <<pool[i]>> ELSE <<>>) \o Keep(pool, keep, i + 1)

Selections(kind) ==
    {keep \in SUBSET (1..Len(Pool(kind))) : Cardinality(keep) <= MaxElements}

----------------------------------------------------------------------------
(* scraper.py:465-561  scrape_product_info *)

\* What a call starts from
NoInfo == [title |-> PyNone, price |-> PyNone]
NoUrl == Url(<<>>, <<>>, <<>>, <<>>)
NoDriver == [sessions |-> 0, quits |-> 0]

\* scraper.py:542-549  the result of the handler of TimeoutException
TimeoutResult(url) ==
    [title |-> <<"Error: Page load timeout">>, price |-> PriceNotFound,
     price_float |-> NoFloat, url |-> url]

\* scraper.py:550-557  the result of the handler of Exception
ErrorResult(url, e) ==
    [title |-> <<"Error: ", e>>, price |-> PriceNotFound,
     price_float |-> NoFloat, url |-> url]

\* Mutant: the price is returned as the adapter scraped it
NormalisedAsScraped(info, url) ==
    [title |-> info.title, price |-> info.price,
     price_float |-> parse_price(info.price), url |-> url]

\* scraper.py:531-535  url, price_float and the display price are added
Normalised(info, url) ==
    [title |-> info.title, price |-> format_price(parse_price(info.price)),
     price_float |-> parse_price(info.price), url |-> url]

\* scraper.py:496  driver = webdriver.Chrome(options=options)
Started(d) == [d EXCEPT !.sessions = @ + 1]

\* Mutant: the browser is left running
Kept(d) == d

\* scraper.py:561  driver.quit()
Quitted(d) == [d EXCEPT !.quits = @ + 1]

\* How the first part of a call can end: Chrome does not start (line 496
\* raises), the wait for the body times out (line 505), another statement
\* of lines 501-514 raises, or the page is parsed
FetchOutcomes == {"ok", "no_browser", "timeout", "error"}

\* scraper.py:476, 496-514  the kind of the site is determined, the browser
\* is started, the page is fetched and parsed
Fetch(kind, keep) ==
    /\ scrape_pc = "start"
    /\ \E outcome \in FetchOutcomes :
         LET url == SiteUrl(kind) IN
         /\ website_type' = get_website_type(url)
         /\ scrape_url' = url
         /\ driver' = IF outcome = "no_browser" THEN driver ELSE Started(driver)
         /\ soup' = IF outcome = "ok" THEN Keep(Pool(kind), keep, 1) ELSE <<>>
         /\ product_info' =
              CASE outcome = "timeout" -> TimeoutResult(url)
                [] outcome = "error" -> ErrorResult(url, "net::ERR_FAILED")
                [] OTHER -> NoInfo
         /\ scrape_exc' =
              CASE outcome = "timeout" -> "TimeoutException"
                [] outcome = "error" -> "Exception"
                [] OTHER -> "none"
         /\ scrape_pc' =
              CASE outcome = "ok" -> "parsed"
                [] outcome = "no_browser" -> "raised"
                [] OTHER -> "caught"
    /\ UNCHANGED <<engine, call, accounts>>

\* scraper.py:527-528  product_info = scraper_func(driver, soup); the driver
\* may raise something else than NoSuchElementException
Extract ==
    /\ scrape_pc = "parsed"
    /\ \E adapter_raises \in BOOLEAN :
         /\ product_info' =
              IF adapter_raises THEN ErrorResult(scrape_url, "invalid session id")
              ELSE scraper_func(website_type, soup)
         /\ scrape_exc' = IF adapter_raises THEN "Exception" ELSE "none"
         /\ scrape_pc' = IF adapter_raises THEN "caught" ELSE "extracted"
    /\ UNCHANGED <<website_type, soup, scrape_url, driver>>
    /\ UNCHANGED <<engine, call, accounts>>

\* scraper.py:531-540  the result is completed
Normalise ==
    /\ scrape_pc = "extracted"
    /\ LET float_raises == parse_price(product_info.price) = FloatRaises IN
         /\ product_info' =
              IF float_raises
              THEN ErrorResult(scrape_url, "could not convert string to float")
              ELSE Normalised(product_info, scrape_url)
         /\ scrape_exc' = IF float_raises THEN "Exception" ELSE "none"
         /\ scrape_pc' = IF float_raises THEN "caught" ELSE "normalised"
    /\ UNCHANGED <<website_type, soup, scrape_url, driver>>
    /\ UNCHANGED <<engine, call, accounts>>

\* scraper.py:558-561  finally: driver.quit(); then the call returns its
\* result, or raises what driver.quit() raised
Quit ==
    /\ scrape_pc \in {"normalised", "caught"}
    /\ driver' = Quitted(driver)
    /\ \E quit_raises \in BOOLEAN :
         scrape_pc' = IF quit_raises THEN "raised" ELSE "returned"
    /\ UNCHANGED <<website_type, soup, product_info, scrape_url, scrape_exc>>
    /\ UNCHANGED <<engine, call, accounts>>

\* The caller has the result or the exception; the next call starts afresh
Return ==
    /\ scrape_pc \in {"returned", "raised"}
    /\ website_type' = "generic"
    /\ soup' = <<>>
    /\ product_info' = NoInfo
    /\ scrape_pc' = "start"
    /\ scrape_url' = NoUrl
    /\ scrape_exc' = "none"
    /\ driver' = NoDriver
    /\ UNCHANGED <<engine, call, accounts>>

----------------------------------------------------------------------------
(* Calls of the pure functions, on arguments drawn from bounded sets *)

NoCall == [fn |-> "none"]

\* The texts of at most n pieces of the alphabet
RECURSIVE Texts(_, _)
Texts(alphabet, n) ==
    IF n = 0 THEN {<<>>}
    ELSE LET shorter == Texts(alphabet, n - 1) IN
         shorter \cup {Append(t, p) : t \in shorter, p \in alphabet}

\* the pieces of the texts handed to parse_price
PriceAlphabet == {"$", "1", "9", "0", ",", ".", "USD "}

PriceTexts ==
    Texts(PriceAlphabet, MaxLen)
      \cup {PriceNotFound, PyNone, <<"$", "1", ",", "2", "3", "4", ".", "5", "6">>}

\* the prices handed to format_price, in hundredths
PriceCents == (0..MaxCents) \cup {99999, 100000, 123456, 999999, 1000000}

\* scraper.py:476  website_type = get_website_type(url)
GetWebsiteType(url) ==
    /\ call.fn = "none"
    /\ call' = [fn |-> "get_website_type", url |-> url,
                returned |-> get_website_type(url)]
    /\ UNCHANGED <<engine, scraper, accounts>>

\* scraper.py:534  parse_price(product_info["price"])
ParsePrice(price_str) ==
    /\ call.fn = "none"
    /\ call' = [fn |-> "parse_price", price_str |-> price_str,
                returned |-> parse_price(price_str)]
    /\ UNCHANGED <<engine, scraper, accounts>>

\* scraper.py:535  format_price(price_float), and the result parsed again
FormatPrice(price) ==
    /\ call.fn = "none"
    /\ call' = [fn |-> "format_price", price |-> price,
                returned |-> format_price(price),
                parsed |-> parse_price(format_price(price))]
    /\ UNCHANGED <<engine, scraper, accounts>>

\* The caller has the result; the next call starts afresh
Forget ==
    /\ call.fn # "none"
    /\ call' = NoCall
    /\ UNCHANGED <<engine, scraper, accounts>>

----------------------------------------------------------------------------
(* services/user_service.py *)

\* The senders of the Signal messages and the names they show
Phones == {"+15550001", "+15550002"}
SenderNames == {"alice", "bob", ""}

\* An optional username: None is the empty sequence, the name n is <<n>>
NoUsername == <<>>
Usernames == {NoUsername} \cup {<<n>> : n \in SenderNames}

\* No call has returned a record: none was made, or the last one raised
NoUser == [id |-> 0, signal_phone |-> "", signal_username |-> NoUsername]

\* db.query(User).filter(User.signal_phone == signal_phone)
UsersByPhone(signal_phone) == {u \in users : u.signal_phone = signal_phone}

\* .first(): the row with the least primary key
FirstUser(rows) == CHOOSE u \in rows : \A v \in rows : u.id <= v.id

\* Mutant: the stored username follows the sender's name, None included
UsernameDiffers(stored, signal_username) ==
    stored.signal_username # signal_username

\* The elif of get_or_create_signal_user
UsernameChanged(stored, signal_username) ==
    signal_username # NoUsername /\ stored.signal_username # signal_username

\* user is None
NewUser(signal_phone) == UsersByPhone(signal_phone) = {}

\* get_or_create_signal_user(db, signal_phone, signal_username); the session
\* is the caller's, which closes it without a commit when the call raises
GetOrCreateSignalUser(signal_phone, signal_username, commit_raises) ==
    /\ IF NewUser(signal_phone)
       THEN LET created == [id |-> next_user_id,
                            signal_phone |-> signal_phone,
                            signal_username |-> signal_username] IN
            IF commit_raises
            THEN user' = NoUser /\ UNCHANGED <<users, next_user_id>>
            ELSE /\ users' = users \cup {created}
                 /\ next_user_id' = next_user_id + 1
                 /\ user' = created
       ELSE LET stored == FirstUser(UsersByPhone(signal_phone)) IN
            IF UsernameChanged(stored, signal_username)
            THEN LET updated ==
                         [stored EXCEPT !.signal_username = signal_username] IN
                 IF commit_raises
                 THEN user' = NoUser /\ UNCHANGED <<users, next_user_id>>
                 ELSE /\ users' = (users \ {stored}) \cup {updated}
                      /\ user' = updated
                      /\ UNCHANGED next_user_id
            ELSE user' = stored /\ UNCHANGED <<users, next_user_id>>
    /\ UNCHANGED <<engine, scraper, call>>

----------------------------------------------------------------------------
Init ==
    /\ products = {}
    /\ price_history = <<>>
    /\ next_id = 1
    /\ queue = EmptyBag
    /\ running = [w \in Workers |-> Idle]
    /\ signal = "none"
    /\ countdown = None
    /\ manual = NoRequest
    /\ website_type = "generic"
    /\ soup = <<>>
    /\ product_info = NoInfo
    /\ scrape_pc = "start"
    /\ scrape_url = NoUrl
    /\ scrape_exc = "none"
    /\ driver = NoDriver
    /\ call = NoCall
    /\ users = {}
    /\ next_user_id = 1
    /\ user = None

Next ==
    \/ \E u \in URLS : \E tp \in TargetInputs :
         \E out \in {Raises, None} \cup TrackPrices : \E fp \in TrackFailPoints :
           TrackProduct(u, tp, out, fp)
    \/ \E i \in 1..MaxProducts : \E commit_raises \in BOOLEAN :
         DeleteProduct(i, commit_raises)
    \/ \E w \in Workers : \E t \in BagToSet(queue) : Deliver(w, t)
    \/ \E w \in Workers : Scrape(w)
    \/ \E w \in Workers : Lookup(w)
    \/ \E w \in Workers : AppendObservation(w)
    \/ \E w \in Workers : Evaluate(w)
    \/ \E w \in Workers : Reschedule(w)

Spec == Init /\ [][Next]_vars

\* The engine on workers that can fail
CrashNext ==
    \/ Next
    \/ \E w \in Workers : Crash(w)

CrashSpec == Init /\ [][CrashNext]_vars

\* Calls of scrape_product_info, one after the other
ScrapeNext ==
    \/ \E kind \in WebsiteTypes : \E keep \in Selections(kind) : Fetch(kind, keep)
    \/ Extract
    \/ Normalise
    \/ Quit
    \/ Return

ScrapeSpec == Init /\ [][ScrapeNext]_vars

\* Calls of get_website_type, parse_price and format_price
PureNext ==
    \/ \E i \in 1..Len(UserInfos) : \E j \in 1..Len(Hosts) :
         \E k \in 1..Len(Ports) : \E n \in 1..Len(Paths) :
           GetWebsiteType(Url(UserInfos[i], Hosts[j], Ports[k], Paths[n]))
    \/ \E price_str \in PriceTexts : ParsePrice(price_str)
    \/ \E cents \in PriceCents : FormatPrice(Decimal(cents, 2))
    \/ FormatPrice(NoFloat)
    \/ Forget

PureSpec == Init /\ [][PureNext]_vars

\* The listener's calls of get_or_create_signal_user, one per message
UserNext ==
    \E signal_phone \in Phones : \E signal_username \in Usernames :
        \E commit_raises \in BOOLEAN :
            GetOrCreateSignalUser(signal_phone, signal_username, commit_raises)

UserSpec == Init /\ [][UserNext]_vars

\* One step of the invocation in progress on worker w
Work(w) ==
    \/ Scrape(w) \/ Lookup(w) \/ AppendObservation(w)
    \/ Evaluate(w) \/ Reschedule(w)

\* The engine and the manual check, which the API process serves while the
\* workers run their cycles.  In Spec a statement of track_product's try
\* block can raise after the scrape; here none does.
ManualNext ==
    \/ \E u \in URLS : \E tp \in TargetInputs :
         \E out \in {Raises, None} \cup TrackPrices :
           TrackProduct(u, tp, out, "none")
    \/ \E i \in 1..MaxProducts : \E commit_raises \in BOOLEAN :
         DeleteProduct(i, commit_raises)
    \/ \E w \in Workers : \E t \in BagToSet(queue) : Deliver(w, t)
    \/ \E w \in Workers : Work(w)
    \/ \E query_raises \in BOOLEAN : CheckPrices(query_raises)
    \/ ManualScrape
    \/ ManualAppend
    \/ ManualEvaluate
    \/ Respond

ManualSpec == Init /\ [][ManualNext]_vars

\* The engine and the Signal bot, which the listener process serves while the
\* workers run their cycles; no statement of track_product raises
SignalNext ==
    \/ \E u \in URLS : \E tp \in TargetInputs :
         \E out \in {Raises, None} \cup TrackPrices :
           TrackProduct(u, tp, out, "none")
    \/ \E u \in URLS : \E tp \in TargetInputs : \E user_id \in UserIds :
         \E out \in {Raises, None} \cup TrackPrices :
           \E commit_raises \in BOOLEAN :
             HandleTrackCommand(u, tp, user_id, out, commit_raises)
    \/ \E index \in 0..(MaxProducts - 1) : \E user_id \in UserIds :
         \E commit_raises \in BOOLEAN :
           StopTrackingItem(index, user_id, commit_raises)
    \/ \E i \in 1..MaxProducts : \E commit_raises \in BOOLEAN :
         DeleteProduct(i, commit_raises)
    \/ \E w \in Workers : \E t \in BagToSet(queue) : Deliver(w, t)
    \/ \E w \in Workers : Work(w)

SignalSpec == Init /\ [][SignalNext]_vars

\* The manual check over the products of two pages, with no worker running
SweepUrls == URLS \cup {"https://example.com/other"}

SweepNext ==
    \/ \E u \in SweepUrls : \E tp \in TargetInputs : \E out \in TrackPrices :
         TrackProduct(u, tp, out, "none")
    \/ \E i \in 1..MaxProducts : DeleteProduct(i, FALSE)
    \/ \E query_raises \in BOOLEAN : CheckPrices(query_raises)
    \/ ManualScrape
    \/ ManualAppend
    \/ ManualEvaluate
    \/ Respond

SweepSpec == Init /\ [][SweepNext]_vars

\* The broker hands w a pending message for url u
DeliverUrl(w, u) ==
    \E t \in BagToSet(queue) : t.url = u /\ Deliver(w, t)

\* A worker process that is up keeps executing, and the broker delivers the
\* messages whose countdown has elapsed to a worker that is free.
Fairness ==
    \A w \in Workers :
        /\ WF_vars(Work(w))
        /\ \A u \in URLS : SF_vars(DeliverUrl(w, u))

LiveSpec == Spec /\ Fairness

----------------------------------------------------------------------------
(* Properties of check_price *)

\* The body of the invocation (the try statement, lines 19-60) is over
BodyOver(c) == c.pc \in {"reschedule", "done"}

Invocations == {running[w] : w \in Workers}

\* The step is a step of the invocation on worker w
Stepped(w) == running'[w].pc # running[w].pc

\* C1 (state): an invocation that has returned made exactly one apply_async
\* call, with a countdown in [3000, 4200]; one in progress has made none
C1_Calls ==
    \A c \in Invocations :
        /\ c.pc = "done" => c.scheduled = 1 /\ c.next_countdown \in 3000..4200
        /\ c.pc \notin {"done", "idle"} => c.scheduled = 0

\* C1 (step): the step on which an invocation returns adds exactly one
\* message, for the invocation's own url and target_price, to the broker
C1_Enqueue ==
    \A w \in Workers :
        LET c == running[w] IN
        c.pc = "reschedule" /\ running'[w].pc = "done" =>
            queue' = queue (+) SetToBag({Task(c.url, c.target_price, c.stale)})

\* C1: every invocation of check_price, whatever step of it raised, puts
\* exactly one continuation for its own url and target_price on the broker,
\* with a countdown in [3000, 4200], when it returns; and none before.
C1_OneContinuation == []C1_Calls /\ [][C1_Enqueue]_vars

\* C1 witness: an invocation whose ledger append raised has returned, and its
\* continuation is pending
C1_Witness ==
    \E c \in Invocations :
        /\ c.pc = "done" /\ c.adds = 1 /\ c.appended = 0 /\ c.rollbacks = 1
        /\ BagIn(Task(c.url, c.target_price, c.stale), queue)

\* The number of check_price invocations for url u that are pending on the
\* broker or in progress on a worker
Live(u) ==
    LET pending == {t \in BagToSet(queue) : t.url = u} IN
    BagCardinality([t \in pending |-> queue[t]])
      + Cardinality({w \in Workers : ~Free(w) /\ running[w].url = u})

\* An invocation for url u is at pc
InvocationAt(u, pc) == \E c \in Invocations : c.url = u /\ c.pc = pc

\* No step ends a chain
ChainKept == \A u \in URLS : Live(u)' >= Live(u)

C3_NoErrorEscapes ==
    \A c \in Invocations :
        /\ ~c.escaped
        /\ BodyOver(c) => ~c.exc

\* C3 witness: the dispatcher raised in an invocation that has returned
C3_Witness ==
    \E c \in Invocations :
        c.pc = "done" /\ c.notifies = 1 /\ c.rollbacks = 1 /\ ~c.escaped

\* C4: once the body is over, the dispatcher was invoked exactly once if the
\* observation was appended and current_price <= target_price, and not at all
\* otherwise (target not found, no price, append failed, price above target).
C4_NotifyIffAtOrBelow ==
    \A c \in Invocations :
        /\ c.notifies <= 1
        /\ BodyOver(c) =>
             c.notifies =
               IF c.appended = 1 /\ c.target_price # None
                    /\ c.current_price <= c.target_price
               THEN 1 ELSE 0

\* C4 witness: a price equal to the threshold notified
C4_Witness ==
    \E c \in Invocations :
        BodyOver(c) /\ c.appended = 1 /\ c.current_price = c.target_price
                    /\ c.notifies = 1

\* C5 (state part): once the body is over, one add and one commit were made
\* if the lookup found the target, none if it did not or no price was
\* obtained; at most one observation is appended.
C5_Counts ==
    \A c \in Invocations :
        /\ c.appended <= c.commits /\ c.commits <= 1 /\ c.adds = c.commits
        /\ BodyOver(c) =>
             c.adds = IF c.product # None /\ c.current_price # None THEN 1 ELSE 0
        /\ c.product # None => c.current_price # None

\* C5 (ledger part): a step of an invocation changes the ledger only by
\* appending the one observation (product.id, current_price) of a commit that
\* succeeded.
C5_Ledger ==
    \A w \in Workers :
        Stepped(w) =>
            price_history' =
              IF running'[w].appended = running[w].appended + 1
              THEN Append(price_history,
                          [product_id |-> running[w].product,
                           price |-> running[w].current_price])
              ELSE price_history

----------------------------------------------------------------------------
(* Thresholds *)

\* C6 (first sentence): when an invocation records its observation for a
\* product whose threshold is null, the threshold becomes round(0.9 * price, 2)
C6_Derives ==
    \A w \in Workers :
        running'[w].appended = running[w].appended + 1 =>
            \A p \in ProductById(running[w].product) :
                p.target_price = None =>
                    \E q \in products' :
                        /\ q.id = p.id
                        /\ q.target_price = Round90(running[w].current_price)

\* C6 (second sentence): a threshold that is set is never changed
C6_Stable ==
    \A p \in products : \A q \in products' :
        p.id = q.id /\ p.target_price # None => q.target_price = p.target_price

\* C6 as claimed: a recheck cycle that normalizes a price for a target whose
\* threshold is null sets it to round(0.9 * price, 2); the threshold is set
\* automatically at most once and never changed automatically afterwards.
C6_CycleDerivesThreshold == [][C6_Derives /\ C6_Stable]_vars

\* C7: POST /track of u, without a target price, on a page showing 100.00,
\* succeeds
C7_Track(u) == ProductByUrl(u) = {} /\ TrackProduct(u, None, 10000, "none")

\* C7: u is tracked with threshold 90.00 and one observation, of 100.00
C7_Tracked(u) ==
    \E p \in ProductByUrl(u) : p.target_price = 9000 /\ PricesOf(p.id) = <<10000>>

\* C7: a cycle with threshold 90.00 that observes 85.00 appends it as the
\* second observation and invokes the dispatcher exactly once (the alert is
\* delivered unless the dispatcher raises)
C7_Cycle ==
    \A w \in Workers :
        LET c == running[w] d == running'[w] IN
        c.current_price = 8500 /\ c.target_price = 9000 =>
            /\ c.pc = "append" /\ d.appended = 1
                 /\ PricesOf(c.product) = <<10000>>
                 => PricesOf(c.product)' = <<10000, 8500>>
            /\ c.pc = "evaluate" /\ Stepped(w) =>
                 /\ d.notifies = 1 /\ BodyOver(d)
                 /\ d.rollbacks = 0 => signal' = "alert"

\* C7 as claimed: tracking sends no notification at all
C7_EndToEndSilent ==
    [][/\ \A u \in URLS : C7_Track(u) => C7_Tracked(u)' /\ signal' = "none"
       /\ C7_Cycle]_vars

\* C7 as amended: tracking a URL with no initial threshold on a page showing
\* 100.00 sets the threshold to 90.00, records exactly one observation, of
\* 100.00, and sends no price alert (it does send the "now being tracked"
\* message); a later cycle observing 85.00 appends the second observation and
\* invokes the dispatcher exactly once.
C7_EndToEnd ==
    [][/\ \A u \in URLS : C7_Track(u) => C7_Tracked(u)' /\ signal' # "alert"
       /\ C7_Cycle]_vars

\* C7 witness: 100.00 then 85.00 recorded for a product with threshold 90.00,
\* and the alert of that cycle delivered
C7_Witness ==
    /\ signal = "alert"
    /\ \E c \in Invocations :
         /\ c.notifies = 1 /\ c.current_price = 8500 /\ c.target_price = 9000
         /\ \E p \in ProductById(c.product) :
              p.target_price = 9000 /\ PricesOf(p.id) = <<10000, 8500>>

----------------------------------------------------------------------------
(* Deleted targets *)

\* C8 as claimed: an invocation delivered after the product that started its
\* chain was deleted finds no product, adds no observation, invokes no
\* dispatcher, and still enqueues exactly one continuation.
C8_OrphanCycleNoOp ==
    \A c \in Invocations :
        c.orphan =>
            /\ c.product = None /\ c.adds = 0 /\ c.notifies = 0
            /\ c.pc = "done" => c.scheduled = 1

----------------------------------------------------------------------------
(* Properties of the adapters *)

\* scraper.py:192-199  what the two price candidates of scrape_walmart yield
walmart_prices(page) ==
    LET price_element == walmart_price_elements(page) IN
    <<AttrOf(price_element[1], "content"), AttrOf(price_element[2], "content")>>

\* scraper.py:276-281  what the two price candidates of scrape_ebay yield
ebay_prices(page) ==
    LET price_element == ebay_price_elements(page) IN
    <<AttrOf(price_element[1], "content"), TextOf(price_element[2])>>

\* The title candidates of an adapter, in the order of its code
TitleCandidates(kind, page) ==
    CASE kind = "amazon" -> amazon_titles(page)
      [] kind = "walmart" -> walmart_titles(page)
      [] kind = "bestbuy" -> bestbuy_titles(page)
      [] kind = "target" -> target_titles(page)
      [] kind = "ebay" -> ebay_titles(page)
      [] kind = "sephora" -> sephora_titles(page)
      [] kind = "dedcool" -> dedcool_titles(page)
      [] kind = "costco" -> costco_titles(page)
      [] OTHER -> generic_titles(page)

\* The price candidates of an adapter, in the order of its code
PriceCandidates(kind, page) ==
    CASE kind = "amazon" -> amazon_prices(page)
      [] kind = "walmart" -> walmart_prices(page)
      [] kind = "bestbuy" -> bestbuy_prices(page)
      [] kind = "target" -> target_prices(page)
      [] kind = "ebay" -> ebay_prices(page)
      [] kind = "sephora" -> sephora_prices(page)
      [] kind = "dedcool" -> dedcool_prices(page)
      [] kind = "costco" -> costco_prices(page)
      [] OTHER -> generic_prices(page)

\* The adapters whose first price candidate is the structured data
StructuredFirst == {"dedcool", "costco", "generic"}

\* The adapters that never read the structured data
StructuredNever == {"amazon", "walmart", "bestbuy", "target", "ebay"}

\* The page is the one script {"@type": "Product", "offers": {"price": "48.00"}}
StructuredOnly == soup = <<LdProduct>>

C10_FirstNonEmptyWins ==
    scrape_pc = "extracted" =>
        LET title == TitleCandidates(website_type, soup)
            price == PriceCandidates(website_type, soup)
            titled == {i \in 1..Len(title) : ~Falsy(title[i])}
            priced == {i \in 1..Len(price) : ~Falsy(price[i])}
        IN /\ titled # {} => product_info.title = title[First(titled)]
           /\ priced # {} => product_info.price = price[First(priced)]

----------------------------------------------------------------------------
(* Properties of scrape_product_info *)

\* C11: a result that scrape_product_info returns has exactly the fields
\* title, price, price_float and url; after a timeout, after an exception,
\* and when the price the adapter scraped holds no number, price_float is
\* None and price is "Price not found"; otherwise price_float is the number
\* scraped and price is format_price(price_float)
C11_FixedShape ==
    scrape_pc = "returned" =>
        LET scraped == parse_price(scraper_func(website_type, soup).price)
            failed == scrape_exc # "none" \/ scraped = NoFloat
        IN /\ DOMAIN product_info = {"title", "price", "price_float", "url"}
           /\ product_info.url = scrape_url
           /\ failed => /\ product_info.price_float = NoFloat
                        /\ product_info.price = PriceNotFound
           /\ ~failed => /\ product_info.price_float = scraped
                         /\ product_info.price = format_price(scraped)

\* C11 witness: the amazon adapter scraped "13" and the call returned
\* "$13.00"
C11_Witness ==
    /\ scrape_pc = "returned"
    /\ scrape_exc = "none"
    /\ scraper_func(website_type, soup).price = <<"1", "3">>
    /\ product_info.price = <<"$", "1", "3", ".", "0", "0">>
    /\ product_info.price_float = Decimal(13, 0)

\* C12: when scrape_product_info has returned or raised, the browser
\* session it started, if any, has been quit exactly once; until then a
\* session that was started has not been quit, and a call starts at most one
C12_SessionReleased ==
    /\ driver.sessions <= 1
    /\ scrape_pc \in {"returned", "raised"} => driver.quits = driver.sessions
    /\ scrape_pc \notin {"returned", "raised"} => driver.quits = 0
    /\ scrape_pc \in {"parsed", "extracted", "normalised", "caught"}
         => driver.sessions = 1

\* C12 witness: the page load timed out and the call returned, the session
\* quit
C12_Witness ==
    /\ scrape_pc = "returned"
    /\ scrape_exc = "TimeoutException"
    /\ driver = [sessions |-> 1, quits |-> 1]

----------------------------------------------------------------------------
(* Properties of get_website_type and of utils/pricing.py *)

\* The kind of the first keyword, in table order, that is in the text;
\* generic if none is
KindIn(text) ==
    LET found == {i \in 1..Len(DOMAIN_TO_WEBSITE_TYPE) :
                    Contains(DOMAIN_TO_WEBSITE_TYPE[i].keyword, Lower(text))}
    IN IF found = {} THEN "generic"
       ELSE DOMAIN_TO_WEBSITE_TYPE[First(found)].website_type

\* C13: get_website_type returns one adapter kind for every URL: the kind
\* of the first keyword of the table that is in the lower-cased host,
\* generic if the host has none of them, whatever the rest of the URL is
C13_FirstKeywordOfHost ==
    call.fn = "get_website_type" =>
        /\ call.returned \in WebsiteTypes
        /\ call.returned = KindIn(call.url.host)

\* C13, on the network location: what holds of the host holds of the text
\* [userinfo@]host[:port]; the path and the query are not looked at
C13_FirstKeywordOfLocation ==
    call.fn = "get_website_type" =>
        /\ call.returned \in WebsiteTypes
        /\ call.returned = KindIn(netloc(call.url))
        /\ call.url.userinfo = <<>> => call.returned = KindIn(call.url.host)

\* C14: a price of two decimals is what parse_price reads back from what
\* format_price wrote for it; None is written "Price not found", which
\* parse_price reads back as None
C14_RoundTrip ==
    /\ call.fn = "format_price" =>
          /\ call.parsed = call.price
          /\ call.price = NoFloat => call.returned = PriceNotFound
    /\ call.fn = "parse_price" /\ call.price_str = PriceNotFound
          => call.returned = NoFloat

\* C14 witness: 1234.56 was written "$1234.56" and read back
C14_Witness ==
    /\ call.fn = "format_price"
    /\ call.price = Decimal(123456, 2)
    /\ call.returned = <<"$", "1", "2", "3", "4", ".", "5", "6">>
    /\ call.parsed = Decimal(123456, 2)

\* C15: parse_price does not raise; it returns None for None, for the empty
\* text, for "Price not found" and for a text without a digit, and otherwise
\* the number of the first run of digits, with the point and the digits
\* that follow it, of the text without its commas
C15_ParseTotal ==
    call.fn = "parse_price" =>
        LET text == call.price_str
            cleaned == SelectSeq(text, LAMBDA p : p # ",")
            numberless == ~\E i \in 1..Len(text) : IsDigit(text[i])
        IN /\ call.returned # FloatRaises
           /\ Falsy(text) \/ text = PriceNotFound \/ numberless
                => call.returned = NoFloat
           /\ ~numberless
                => /\ call.returned # NoFloat
                   /\ call.returned = ToFloat(NumberMatch(cleaned))

\* C15 witness: "$1,234.56" was parsed as 1234.56
C15_Witness ==
    /\ call.fn = "parse_price"
    /\ call.price_str = <<"$", "1", ",", "2", "3", "4", ".", "5", "6">>
    /\ call.returned = Decimal(123456, 2)

----------------------------------------------------------------------------
(* Properties of the operations on the ledger and on the broker *)

\* The products the step stores
Stored == products' \ products

Interrupted(w) == ~Free(w) /\ running'[w] = Idle

\* C17 (action): the message of a check_price invocation is acknowledged
\* only when the invocation is over, so when the worker dies before the
\* invocation has enqueued its continuation the broker still holds the
\* message, to deliver it again.
C17_InterruptedCycleRedelivered ==
    [][\A w \in Workers :
         Interrupted(w) =>
            BagIn(Task(running[w].url, running[w].target_price, running[w].stale),
                  queue')]_vars

\* The observations of price recorded for product id
Recorded(id, price) ==
    {i \in 1..Len(price_history) :
       price_history[i] = [product_id |-> id, price |-> price]}

\* The manual check is at pc for the product and the price of invocation c
ManualAt(pc, c) ==
    /\ manual.pc = pc
    /\ manual.todo # <<>>
    /\ Head(manual.todo).id = c.product
    /\ manual.current_price = c.current_price

\* C18 (action): a cycle and a manual check of the same product neither wait
\* for nor look at one another.  Whatever the other one has done or is
\* doing, the step of check_prices that commits appends its observation,
\* and its next step calls the notifier when the price is at or below the
\* product's threshold; the same holds for the steps of a check_price
\* invocation.  So both can record and announce the same price.
C18_NoMutualExclusion ==
    [][/\ manual.pc = "append" /\ manual'.pc = "evaluate" =>
            price_history' =
                Append(price_history,
                       [product_id |-> Head(manual.todo).id,
                        price |-> manual.current_price])
       /\ /\ manual.pc = "evaluate"
          /\ manual' # manual
          /\ Head(manual.todo) \in products
          /\ Head(manual.todo).target_price # None
          /\ manual.current_price <= Head(manual.todo).target_price
          => manual'.notifies = manual.notifies + 1
       /\ \A w \in Workers :
            /\ running[w].pc = "append" /\ running'[w].pc = "evaluate" =>
                 price_history' =
                     Append(price_history,
                            [product_id |-> running[w].product,
                             price |-> running[w].current_price])
            /\ /\ running[w].pc = "evaluate"
               /\ Stepped(w)
               /\ running[w].target_price # None
               /\ running[w].current_price <= running[w].target_price
               => running'[w].notifies = running[w].notifies + 1]_vars

\* C18 witness: the manual check has just announced a price that a cycle of
\* the same product has recorded too and is about to announce: both
\* observations are in the ledger, and the cycle's notification follows
C18_Witness ==
    \E w \in Workers :
        /\ running[w].pc = "evaluate"
        /\ running[w].current_price <= running[w].target_price
        /\ manual.notifies = 1
        /\ manual.current_price = running[w].current_price
        /\ signal = "target"
        /\ Cardinality(Recorded(running[w].product, running[w].current_price)) = 2

\* The other order: the cycle has just announced the price, and the manual
\* check, which has recorded it as well, is about to
C18_CycleFirst ==
    \E w \in Workers :
        /\ running[w].notifies = 1
        /\ signal = "alert"
        /\ ManualAt("evaluate", running[w])
        /\ Head(manual.todo) \in products
        /\ manual.current_price <= Head(manual.todo).target_price
        /\ Cardinality(Recorded(running[w].product, running[w].current_price)) = 2

\* The products the step deletes
Deleted == products \ products'

\* C19 (action): the ledger is append-only.  A step of check_price, of
\* check_prices or of track_product leaves every observation in place, with
\* its product and its price, and adds at most one at the end; observations
\* leave the ledger only in a step that deletes a product, and then exactly
\* the observations of that product leave it, all of them.
C19_AppendOnly ==
    [][/\ Deleted = {} =>
            /\ Len(price_history') \in {Len(price_history), Len(price_history) + 1}
            /\ SubSeq(price_history', 1, Len(price_history)) = price_history
       /\ \A p \in Deleted :
            /\ Deleted = {p}
            /\ price_history' =
                 SelectSeq(price_history, LAMBDA h : h.product_id # p.id)
            /\ \A i \in 1..Len(price_history') : price_history'[i].product_id # p.id]_vars

\* C19 witness: the first product was tracked and recorded, then deleted
\* (an invocation of its chain is still there); the ledger holds the
\* observations of the second product only, one of them added by
\* track_product and the others by checks
C19_Witness ==
    /\ \E p \in products : products = {p} /\ p.id = 2
    /\ \E w \in Workers : running[w].stale /\ running[w].scheduled = 1
    /\ Len(price_history) = MaxHistory + MaxManual
    /\ \A i \in 1..Len(price_history) : price_history[i].product_id = 2

\* C20 (state): when the lookup of the product (line 30) or the append to
\* the ledger (lines 34-36) raises, that invocation calls db.rollback()
\* exactly once and none of the statements after the one that raised runs:
\* a failed lookup adds no observation, neither of them is followed by a
\* call of the notifier, and the body of the invocation is over.
C20_RollbackOnceThenSkip ==
    \A c \in Invocations :
        c.raised \in {"lookup", "append"} =>
            /\ c.rollbacks = 1
            /\ c.notifies = 0
            /\ c.appended = 0
            /\ c.raised = "lookup" => c.adds = 0 /\ c.commits = 0
            /\ BodyOver(c)

\* C20 witness: the commit of an observation at or below the threshold
\* raised; the invocation rolled back once and went on to reschedule
C20_Witness ==
    \E c \in Invocations :
        /\ c.raised = "append"
        /\ c.target_price # None
        /\ c.current_price <= c.target_price
        /\ c.rollbacks = 1
        /\ c.pc = "done"

\* C21 (state): an invocation whose notifier raised called it once, and
\* never again; the observation it had committed before is still in the
\* ledger (the rollback of line 54 undoes nothing that was committed), for
\* as long as its product is not deleted.
C21_NoRetryObservationKept ==
    \A c \in Invocations :
        c.raised = "send" =>
            /\ c.notifies = 1
            /\ c.appended = 1
            /\ c.rollbacks = 1
            /\ Recorded(c.product, c.current_price) # {} \/ ProductById(c.product) = {}

\* C21 witness: the notifier raised, the invocation went on to reschedule,
\* and the observation of its product is in the ledger
C21_Witness ==
    \E c \in Invocations :
        /\ c.raised = "send"
        /\ c.pc = "done"
        /\ ProductById(c.product) # {}
        /\ Recorded(c.product, c.current_price) # {}

\* C22 (state): an invocation whose scrape raised, or whose scraped price
\* was the sentinel "Price not found" (float() raises on it), has opened no
\* database session: it looked no product up, added and committed no
\* observation, called the notifier not once, and had nothing to roll back
\* or to close.  Its body is over and only the rescheduling is left.
C22_FailedScrapeTouchesNothing ==
    \A c \in Invocations :
        c.raised = "scrape" =>
            /\ c.opens = 0
            /\ c.product = None
            /\ c.adds = 0 /\ c.commits = 0 /\ c.appended = 0
            /\ c.notifies = 0
            /\ c.rollbacks = 0 /\ c.closes = 0
            /\ BodyOver(c)

\* C22 witness: the scrape failed for a product that is tracked and has its
\* first observation; the invocation has rescheduled itself
C22_Witness ==
    \E c \in Invocations :
        /\ c.raised = "scrape"
        /\ c.pc = "done"
        /\ c.scheduled = 1
        /\ \E p \in ProductByUrl(c.url) : Len(ObservationsOf(p.id)) = 1

\* C23 (state): an invocation opens at most one database session.  While
\* its body runs the session is not closed; once the body is over, and so
\* before apply_async is called, db.close() has been called exactly once if
\* the session was opened and not at all if it was not, whichever way the
\* body ended: product found or not, commit or notifier raising or not.
C23_SessionClosedOnce ==
    \A c \in Invocations :
        /\ c.opens \in {0, 1}
        /\ BodyOver(c) => c.closes = c.opens
        /\ ~BodyOver(c) => c.closes = 0

\* C23 witness: the lookup found no product; the session that was opened
\* has been closed once and the continuation is enqueued
C23_Witness ==
    \E c \in Invocations :
        /\ c.pc = "done"
        /\ c.opens = 1
        /\ c.closes = 1
        /\ c.product = None
        /\ c.raised = "none"

\* C24 (action): the arguments of a check_price invocation are the url and
\* the target_price of the message it was started from; no step of the
\* invocation changes them; and the one message its apply_async puts on the
\* broker carries the same url and the same target_price.  So the threshold
\* passes unchanged from each cycle of a chain to the next.
C24_ArgumentsPassedOn ==
    [][\A w \in Workers :
         /\ ~Free(w) =>
              /\ running'[w].url = running[w].url
              /\ running'[w].target_price = running[w].target_price
         /\ running[w].pc = "reschedule" /\ Stepped(w) =>
              /\ BagCardinality(queue') = BagCardinality(queue) + 1
              /\ \E t \in BagToSet(queue') :
                   /\ t.url = running[w].url
                   /\ t.target_price = running[w].target_price
                   /\ CopiesIn(t, queue') = CopiesIn(t, queue) + 1
         /\ Free(w) /\ ~Free(w)' =>
              \E t \in BagToSet(queue) :
                   /\ queue' = queue (-) SetToBag({t})
                   /\ running'[w].url = t.url
                   /\ running'[w].target_price = t.target_price]_vars

\* C24 witness: a cycle of a chain that was started with a threshold has
\* enqueued its continuation, which carries that threshold, the one stored
\* with the product
C24_Witness ==
    \E c \in Invocations : \E t \in BagToSet(queue) : \E p \in ProductByUrl(c.url) :
        /\ c.pc = "done"
        /\ ~c.stale
        /\ c.target_price # None
        /\ p.target_price = c.target_price
        /\ t.url = c.url
        /\ t.target_price = c.target_price

\* C25 (action): a call of get_or_create_signal_user leaves at most one row
\* per phone; when it returns, the row of its phone is the one it returns; for
\* a phone that had a row it returns that row's id; the stored username of
\* that row changes only to the username supplied, and only when that is not
\* None and differs from the stored one; the rows of the other phones stay
C25_OneUserPerPhone ==
    [][\A p \in Phones : \A n \in Usernames : \A commit_raises \in BOOLEAN :
         GetOrCreateSignalUser(p, n, commit_raises) =>
             LET before == UsersByPhone(p)
                 after == {u \in users' : u.signal_phone = p}
             IN  /\ \A q \in Phones :
                      Cardinality({u \in users' : u.signal_phone = q}) <= 1
                 /\ user' # NoUser => after = {user'}
                 /\ \A s \in before : after # {} /\ \A t \in after :
                      /\ t.id = s.id
                      /\ t.signal_username # s.signal_username =>
                             /\ n # NoUsername
                             /\ n # s.signal_username
                             /\ t.signal_username = n
                      /\ s.signal_username # NoUsername =>
                             t.signal_username # NoUsername
                 /\ \A u \in users : u.signal_phone # p => u \in users'
    ]_vars

\* Two phones have a row, and the call that just returned was for the phone
\* that got the first row, whose username is set
C25_Witness ==
    /\ Cardinality(users) = 2
    /\ user \in users
    /\ user.id = 1
    /\ user.signal_username # NoUsername
    /\ \E u \in users : u.id = 2 /\ u.signal_username = NoUsername
\* C26 (state): the manual check isolates the failures of one target: when
\* the request is answered and every product of its list still exists, the
\* loop has gone through the whole list, whatever was raised while a product
\* was scraped, its observation appended or its notification sent
C26_FailuresIsolated ==
    /\ manual.pc = "responded"
    /\ \A i \in 1..Len(manual.todo) : manual.todo[i] \in products
    => manual.todo = <<>>
\* C27 (state): every tracked target is monitored, whichever entry point
\* stored it: a check_price message for its url is pending or an invocation
\* for its url is running
C27_EveryTargetMonitored ==
    \A p \in products : Live(p.url) >= 1
\* C28 (action): track_product is all-or-nothing: a call that answers with
\* an error (HTTP 400 or 500) has stored no product and no observation and
\* has put no check_price message on the broker
C28_TrackAllOrNothing ==
    [][\A u \in URLS : \A tp \in TargetInputs :
         \A out \in {Raises, None} \cup TrackPrices : \A fp \in TrackFailPoints :
           /\ TrackProduct(u, tp, out, fp)
           /\ TrackStatus(ProductByUrl(u), out, fp) \in {400, 500}
           => /\ products' = products
              /\ price_history' = price_history
              /\ queue' = queue
    ]_vars
\* C29 (state): at most one continuation chain serves a tracked target:
\* the check_price messages pending and the invocations running that look
\* up the url of a product are at most one, whatever was tracked, deleted
\* and tracked again
C29_OneChainPerTarget ==
    \A p \in products : Live(p.url) <= 1
\* C30 (state): every observation in the ledger refers to a product that
\* exists, however a deletion of the product falls between the lookup and
\* the commit of a cycle
C30_NoOrphanObservation ==
    \A i \in 1..Len(price_history) :
        ProductById(price_history[i].product_id) # {}
====
